---- MODULE Spec2Model ----
(***************************************************************************)
(* Verification model of aidenwallis/go-ratelimiting.                      *)
(*                                                                         *)
(* Four limiters are modelled, each under its own specification:           *)
(*   SpecDSW    redis.SlidingWindowImpl  (Lua scripts on a sorted set)     *)
(*   SpecDLB    redis.LeakyBucketImpl    (Lua script on two string keys)   *)
(*   SpecLocal  local.leakyBucket / local.slidingWindow, driven by         *)
(*              concurrent goroutines (TryTake, Size, Wait, WaitFunc)      *)
(*   FairLocal  SpecLocal plus the fairness Go's scheduler, timers and     *)
(*              select statement provide                                   *)
(*   SpecSeq    one caller of a local limiter, next to the same run        *)
(*              without its Size calls                                     *)
(*   SpecPair   redis.SlidingWindowImpl next to the same run without its   *)
(*              Inspect calls                                              *)
(*   SpecSW     a sliding window of either kind, redis or local            *)
(*   SpecBucket redis.LeakyBucketImpl on one bucket whose options never     *)
(*              change, with the history of its calls                      *)
(*   SpecExpiry that bucket next to its copy in a store that never expires  *)
(*              keys                                                       *)
(*   SpecAdapter the Go methods of the redis limiters over an adapter whose *)
(*              Eval fails or returns any value                            *)
(*   SpecNew    a caller that constructs a local sliding window with any    *)
(*              arguments and then uses it                                 *)
(*   SpecTTL    redis.SlidingWindowImpl with a record of what the key's TTL *)
(*              removes, next to a store that never expires the key        *)
(*   SpecMutex  the calls of a local limiter step by step, with the mutex  *)
(*              r.m and the loads and stores under it                      *)
(***************************************************************************)
EXTENDS Integers, Sequences, FiniteSets, TLC

(***************************************************************************)
(* Bounds of the model.                                                    *)
(***************************************************************************)
\* ticks of the nanosecond clock that make up one second (scaled down)
TicksPerSecond == 2
\* largest value of the sliding window store's clock and of a caller's timestamp
MaxNow == 4
\* largest value of the leaky bucket store's clock and of a caller's timestamp, in seconds
MaxSeconds == 3
\* largest MaximumCapacity a caller passes
MaxCapacity == 2
\* largest sliding window, in clock ticks
MaxWindow == 3
\* largest number of admitted Use calls that is recorded
MaxAdmitted == 3
\* largest WindowSeconds a leaky-bucket caller passes
MaxWindowSeconds == 2

\* number of goroutines that use one local limiter
NumProcs == 2
\* largest number of tokens taken through TryTake (Wait and WaitFunc excluded)
MaxTakes == 2
\* largest capacity of a local limiter
MaxLocalCapacity == 2
\* window of a local limiter, in clock ticks
LocalWindow == 2
\* largest number of ticks the clock advances between two clock readings of one call
MaxSkew == 1
\* largest WindowSeconds of the bucket whose history is kept
MaxBucketWindow == 3
\* largest timestamp a caller of that bucket passes, in seconds
MaxBucketSeconds == 6
\* longest list an adapter returns from Eval
MaxReplyLen == 4
\* largest int64 in an adapter's reply
MaxReplyInt == 1

Nil == -1
Procs == 1..NumProcs

Min(a, b) == IF a < b THEN a ELSE b
Max(a, b) == IF a > b THEN a ELSE b
\* ceil(a / b) for a >= 0, b > 0
CeilDiv(a, b) == (a + b - 1) \div b

VARIABLES
    \* ---- redis sliding window -------------------------------------------
    zset,          \* members of the sorted set at bucket.Key (member = score = expiresAt)
    zsetExpireAt,  \* store time at which the key's TTL removes it, Nil without TTL
    swClock,       \* the store's clock, in ticks
    swMax,         \* bucket.MaximumCapacity
    swWindow,      \* bucket.Window, in ticks
    swReply,       \* the last reply of Use / Inspect
    swAdmitted,    \* timestamps of the Use calls that returned Success
    swLastNow,     \* timestamp of the previous call
    swMonotone,    \* all calls so far carried non-decreasing timestamps
    swAgree,       \* all calls so far carried the store's own time
    \* ---- redis leaky bucket ---------------------------------------------
    lbTokens,      \* value at KeyPrefix::tokens, Nil when absent
    lbLastFill,    \* value at KeyPrefix::last_fill, Nil when absent
    lbExpireAt,    \* store time at which both keys expire
    lbClock,       \* the store's clock, in seconds
    lbCall,        \* arguments of the last Use, and the script's tokens after its refill step
    lbReply,       \* the last UseLeakyBucketResponse
    \* ---- local limiters -------------------------------------------------
    limiter,       \* which local limiter the goroutines share: "leaky" or "sliding"
    capacity,      \* leakyBucket.max / slidingWindow.capacity
    rate,          \* leakyBucket.rate, in ticks
    duration,      \* slidingWindow.duration, in ticks
    tokens,        \* leakyBucket.tokens
    sinceLastFill, \* time.Since(leakyBucket.lastFill), capped at rate * max
    window,        \* slidingWindow.window, each entry as the time left until it expires
    ctxDone,       \* the context passed to Wait / WaitFunc has been cancelled
    pc,            \* where each goroutine is
    op,            \* the blocking call each goroutine is in
    timer,         \* time left until the timer of awaitNextToken fires
    ret,           \* what the last TryTakeWithDuration / Size returned
    took,          \* tokens taken by the goroutine's Wait / WaitFunc invocation
    cbCalls,       \* number of times the goroutine's WaitFunc callback ran
    takes,         \* number of TryTake calls that took a token so far
    admitAges,     \* ages of the sliding window's admissions younger than duration
    \* ---- one caller of a local limiter, with its history ------------------
    refTokens,     \* leakyBucket.tokens in the same run of TryTake calls without its Size calls
    refSince,      \* time.Since(lastFill) in that run
    refRet,        \* what the last TryTakeWithDuration returned in that run
    promise,       \* time left until t + d of the earliest (false, d) returned since the last take
    pristine,      \* since construction no unsafeFill added a token and no clean evicted an entry
    tries,         \* number of TryTakeWithDuration calls since construction, counted up to capacity + 1
    succ,          \* number of those calls that returned true
    \* ---- the redis sliding window's run without its Inspect calls ----------
    refZset,         \* members of the sorted set in that run
    refZsetExpireAt, \* store time at which the key's TTL removes it in that run
    refSwReply,      \* the last reply of Use in that run
    \* ---- one redis leaky bucket used with the same options in every call ----
    lbCap,         \* bucket.MaximumCapacity of every call
    lbWin,         \* bucket.WindowSeconds of every call
    lbRun,         \* number of Use(takeAmount = 1) calls in a row, all with one
                   \* timestamp, since a call that found the keys absent; 0 when
                   \* the row is broken or longer than lbCap + 1
    lbOrdered,     \* all calls so far carried non-decreasing timestamps
    lbNoNeg,       \* all calls so far carried a takeAmount >= 0
    \* the histories below are kept while lbOrdered holds, and all but lbHigh
    \* and lbHighAt while lbNoNeg holds; after that they are Nil, FALSE or 0
    lbBase,        \* RemainingTokens reported by the last call that took a positive
                   \* amount, Nil if there is none
    lbHigh,        \* largest RemainingTokens reported since the last call that took
                   \* a positive amount, that call included
    lbHighAt,      \* timestamp of the first call that reported lbHigh
    lbPromise,     \* earliest ResetAt returned since the last call with a takeAmount
                   \* other than 0, that call included; Nil before the first call
    lbLate,        \* the last call carried takeAmount 0 and a timestamp at or after
                   \* the lbPromise it found
    lbBurst,       \* sum of takeAmount over the successful calls among the latest
                   \* calls in a row that carry one timestamp, with no tick of the
                   \* store's clock between them
    \* ---- the Go side of the redis limiters, over any adapter --------------
    adCall,        \* the last call: method, options, and what the adapter's Eval returns
                   \* on its first and on its second invocation
    adResult,      \* what the call returned, and how often it invoked Eval
    \* ---- the construction of a local sliding window ------------------------
    newArgs,       \* the arguments of the last NewSlidingWindow call
    newErr,        \* the error it returned
    \* ---- the same redis leaky bucket in a store that never expires keys ----
    lbRefTokens,   \* value at KeyPrefix::tokens in that store, Nil when absent
    lbRefLastFill, \* value at KeyPrefix::last_fill in that store, Nil when absent
    lbRefReply,    \* the last UseLeakyBucketResponse in that store
    lbAgree,       \* all calls so far carried the store's own time
    \* ---- the mutex of a local limiter and the steps of the calls under it ---
    mu,            \* goroutines that have locked r.m and not yet unlocked it
    loaded,        \* per goroutine: what its take loaded (r.tokens, or r.window)
                   \* and has not yet written back
    pend,          \* per goroutine: what its call is about to return, or returned
    units0,        \* units available when the goroutines started: tokens, or
                   \* capacity - len(window)
    quiet,         \* no tick of the clock has passed since the goroutines started
    \* ---- the redis sliding window's key TTL ---------------------------------
    ttlRemoved,    \* members the key's TTL removed at the last tick of the store's clock
    swNoTtl        \* members of the sorted set in a store that never expires the key

swVars == <<zset, zsetExpireAt, swClock, swMax, swWindow, swReply, swAdmitted,
            swLastNow, swMonotone, swAgree>>
lbVars == <<lbTokens, lbLastFill, lbExpireAt, lbClock, lbCall, lbReply>>
limVars == <<limiter, capacity, rate, duration, tokens, sinceLastFill, window, admitAges>>
goVars == <<ctxDone, pc, op, timer, ret, took, cbCalls, takes>>
localVars == <<limVars, goVars>>
seqVars == <<refTokens, refSince, refRet, promise, pristine, tries, succ>>
refSwVars == <<refZset, refZsetExpireAt, refSwReply>>
lbHistVars == <<lbCap, lbWin, lbRun, lbOrdered, lbNoNeg, lbBase, lbHigh, lbHighAt, lbPromise, lbLate, lbBurst>>
adapterVars == <<adCall, adResult>>
ctorVars == <<newArgs, newErr>>
lbRefVars == <<lbRefTokens, lbRefLastFill, lbRefReply, lbAgree>>
muVars == <<mu, loaded, pend, units0, quiet>>
swTtlVars == <<ttlRemoved, swNoTtl>>
auxVars == <<seqVars, refSwVars, lbHistVars, adapterVars, ctorVars, lbRefVars, muVars, swTtlVars>>
vars == <<swVars, lbVars, localVars, auxVars>>

(***************************************************************************)
(* redis.SlidingWindowImpl                                                 *)
(***************************************************************************)
NoReply == [op |-> "none"]

\* zremrangebyscore key -inf (now: the score now itself is kept
ZRemRangeByScore_Exclusive(set, now) == {m \in set : m >= now}

\* zremrangebyscore key -inf now
ZRemRangeByScore(set, now) == {m \in set : m > now}

\* windowTTL rounded down to whole seconds
WindowTTL_Floor(win) == win \div TicksPerSecond

\* windowTTL := int(math.Ceil(bucket.Window.Seconds()))
WindowTTL(win) == CeilDiv(win, TicksPerSecond)

\* UseScript with the room test off by one (tokens <= max)
UseScript_OffByOne(set, now, expiresAt, max) ==
    LET cleaned == ZRemRangeByScore(set, now)
        card    == Cardinality(cleaned)
    IN  IF card <= max
        THEN [set |-> cleaned \cup {expiresAt}, success |-> 1,
              tokens |-> card + 1, added |-> TRUE]
        ELSE [set |-> cleaned, success |-> 0, tokens |-> card, added |-> FALSE]

\* the Lua script of Use: evict, count, and add expiresAt when there is room
UseScript(set, now, expiresAt, max) ==
    LET cleaned == ZRemRangeByScore(set, now)
        card    == Cardinality(cleaned)
    IN  IF card < max
        THEN [set |-> cleaned \cup {expiresAt}, success |-> 1,
              tokens |-> card + 1, added |-> TRUE]
        ELSE [set |-> cleaned, success |-> 0, tokens |-> card, added |-> FALSE]

\* the script of Inspect deleting the key after it has counted
InspectScript_Deletes(set, now) ==
    [set |-> {}, tokens |-> Cardinality(ZRemRangeByScore(set, now))]

\* the script of Inspect without its zremrangebyscore
InspectScript_NoEvict(set, now) == [set |-> set, tokens |-> Cardinality(set)]

\* the Lua script of Inspect: evict and count
InspectScript(set, now) ==
    LET cleaned == ZRemRangeByScore(set, now)
    IN  [set |-> cleaned, tokens |-> Cardinality(cleaned)]

\* remaining := 0; if v := MaximumCapacity - tokens; v > 0 { remaining = v }
RemainingCapacity(max, card) == IF max - card > 0 THEN max - card ELSE 0

SwInit ==
    /\ zset = {}
    /\ zsetExpireAt = Nil
    /\ swClock = 0
    /\ swMax \in 0..MaxCapacity
    /\ swWindow \in 1..MaxWindow
    /\ swReply = NoReply
    /\ swAdmitted = <<>>
    /\ swLastNow = 0
    /\ swMonotone = TRUE
    /\ swAgree = TRUE

SwNote(now) ==
    /\ swLastNow' = now
    /\ swMonotone' = (swMonotone /\ now >= swLastNow)
    /\ swAgree' = (swAgree /\ now = swClock)

\* SlidingWindowImpl.Use with the clock reading now
SwUse(now) ==
    /\ Len(swAdmitted) < MaxAdmitted
    /\ LET out == UseScript(zset, now, now + swWindow, swMax)
       IN  /\ zset' = out.set
           /\ zsetExpireAt' = IF out.added
                              THEN swClock + WindowTTL(swWindow) * TicksPerSecond
                              ELSE IF out.set = {} THEN Nil ELSE zsetExpireAt
           /\ swReply' = [op |-> "Use", success |-> (out.success = 1),
                          remaining |-> RemainingCapacity(swMax, out.tokens),
                          now |-> now]
           /\ swAdmitted' = IF out.success = 1 THEN Append(swAdmitted, now) ELSE swAdmitted
    /\ SwNote(now)
    /\ UNCHANGED <<swClock, swMax, swWindow>>

\* SlidingWindowImpl.Inspect with the clock reading now
SwInspect(now) ==
    /\ LET out == InspectScript(zset, now)
       IN  /\ zset' = out.set
           /\ zsetExpireAt' = IF out.set = {} THEN Nil ELSE zsetExpireAt
           /\ swReply' = [op |-> "Inspect", success |-> FALSE,
                          remaining |-> RemainingCapacity(swMax, out.tokens),
                          now |-> now]
    /\ SwNote(now)
    /\ UNCHANGED <<swClock, swMax, swWindow, swAdmitted>>

\* the store's clock advances; a key whose TTL has run out is removed
SwTick ==
    /\ swClock < MaxNow
    /\ swClock' = swClock + 1
    /\ IF zsetExpireAt # Nil /\ swClock + 1 >= zsetExpireAt
       THEN zset' = {} /\ zsetExpireAt' = Nil
       ELSE UNCHANGED <<zset, zsetExpireAt>>
    /\ UNCHANGED <<swMax, swWindow, swReply, swAdmitted, swLastNow, swMonotone, swAgree>>

(***************************************************************************)
(* redis.SlidingWindowImpl with a record of what the key's TTL removes,    *)
(* next to the same calls on a store that never expires the key.           *)
(***************************************************************************)
TtlInit ==
    /\ ttlRemoved = {}
    /\ swNoTtl = {}

\* Use, on the store and on the store without key expiry
TtlUse(now) ==
    /\ SwUse(now)
    /\ swNoTtl' = UseScript(swNoTtl, now, now + swWindow, swMax).set
    /\ ttlRemoved' = {}

\* Inspect, on the store and on the store without key expiry
TtlInspect(now) ==
    /\ SwInspect(now)
    /\ swNoTtl' = InspectScript(swNoTtl, now).set
    /\ ttlRemoved' = {}

\* the store's clock advances; the members of a key whose TTL has run out
\* are recorded
TtlTick ==
    /\ SwTick
    /\ ttlRemoved' = IF zsetExpireAt # Nil /\ swClock + 1 >= zsetExpireAt THEN zset ELSE {}
    /\ UNCHANGED swNoTtl

(***************************************************************************)
(* redis.SlidingWindowImpl next to its reference run: the same Use calls   *)
(* with the same timestamps at the same store times, and no Inspect calls. *)
(***************************************************************************)
\* Use, in the run and in the reference run
PairUse(now) ==
    /\ SwUse(now)
    /\ LET out == UseScript(refZset, now, now + swWindow, swMax)
       IN  /\ refZset' = out.set
           /\ refZsetExpireAt' = IF out.added
                                 THEN swClock + WindowTTL(swWindow) * TicksPerSecond
                                 ELSE IF out.set = {} THEN Nil ELSE refZsetExpireAt
           /\ refSwReply' = [op |-> "Use", success |-> (out.success = 1),
                             remaining |-> RemainingCapacity(swMax, out.tokens),
                             now |-> now]

\* Inspect, in the run only
PairInspect(now) ==
    /\ SwInspect(now)
    /\ UNCHANGED refSwVars

\* the store's clock advances, in the run and in the reference run
PairTick ==
    /\ SwTick
    /\ IF refZsetExpireAt # Nil /\ swClock + 1 >= refZsetExpireAt
       THEN refZset' = {} /\ refZsetExpireAt' = Nil
       ELSE UNCHANGED <<refZset, refZsetExpireAt>>
    /\ UNCHANGED refSwReply

(***************************************************************************)
(* redis.LeakyBucketImpl                                                   *)
(***************************************************************************)
\* math.floor((now - lastFilled) * rate) with rate = capacity / windowSeconds
TokensToFill(now, lastFilled, maxCapacity, windowSeconds) ==
    ((now - lastFilled) * maxCapacity) \div windowSeconds

\* Refill without the clamp: a bucket above a reduced capacity is not shrunk
Refill_NoClamp(tokens0, lastFilled0, maxCapacity, windowSeconds, now) ==
    LET t1 == IF tokens0 = Nil THEN 0 ELSE tokens0
        lf == IF lastFilled0 = Nil THEN 0 ELSE lastFilled0
        fill == TokensToFill(now, lf, maxCapacity, windowSeconds)
    IN  IF t1 < maxCapacity /\ fill > 0
        THEN [tokens |-> Min(maxCapacity, t1 + fill), lastFilled |-> now]
        ELSE [tokens |-> t1, lastFilled |-> lf]

\* Refill without math.min: the refill is not capped at the capacity
Refill_Uncapped(tokens0, lastFilled0, maxCapacity, windowSeconds, now) ==
    LET t1 == IF tokens0 = Nil THEN 0 ELSE tokens0
        t2 == IF t1 > maxCapacity THEN maxCapacity ELSE t1
        lf == IF lastFilled0 = Nil THEN 0 ELSE lastFilled0
        fill == TokensToFill(now, lf, maxCapacity, windowSeconds)
    IN  IF t2 < maxCapacity /\ fill > 0
        THEN [tokens |-> t2 + fill, lastFilled |-> now]
        ELSE [tokens |-> t2, lastFilled |-> lf]

\* Refill with the clamp one token above the capacity
Refill_ClampAbove(tokens0, lastFilled0, maxCapacity, windowSeconds, now) ==
    LET t1 == IF tokens0 = Nil THEN 0 ELSE tokens0
        t2 == IF t1 > maxCapacity + 1 THEN maxCapacity + 1 ELSE t1
        lf == IF lastFilled0 = Nil THEN 0 ELSE lastFilled0
        fill == TokensToFill(now, lf, maxCapacity, windowSeconds)
    IN  IF t2 < maxCapacity /\ fill > 0
        THEN [tokens |-> Min(maxCapacity, t2 + fill), lastFilled |-> now]
        ELSE [tokens |-> t2, lastFilled |-> lf]

\* Refill with an absent last_fill read as now: a bucket that does not exist
\* starts empty
Refill_FreshEmpty(tokens0, lastFilled0, maxCapacity, windowSeconds, now) ==
    LET t1 == IF tokens0 = Nil THEN 0 ELSE tokens0
        t2 == IF t1 > maxCapacity THEN maxCapacity ELSE t1
        lf == IF lastFilled0 = Nil THEN now ELSE lastFilled0
        fill == TokensToFill(now, lf, maxCapacity, windowSeconds)
    IN  IF t2 < maxCapacity /\ fill > 0
        THEN [tokens |-> Min(maxCapacity, t2 + fill), lastFilled |-> now]
        ELSE [tokens |-> t2, lastFilled |-> lf]

\* Refill that stamps lastFilled with now whenever the bucket is not full
Refill_AlwaysStamp(tokens0, lastFilled0, maxCapacity, windowSeconds, now) ==
    LET t1 == IF tokens0 = Nil THEN 0 ELSE tokens0
        t2 == IF t1 > maxCapacity THEN maxCapacity ELSE t1
        lf == IF lastFilled0 = Nil THEN 0 ELSE lastFilled0
        fill == TokensToFill(now, lf, maxCapacity, windowSeconds)
    IN  IF t2 < maxCapacity
        THEN [tokens |-> Min(maxCapacity, t2 + Max(fill, 0)), lastFilled |-> now]
        ELSE [tokens |-> t2, lastFilled |-> lf]

\* the script's tokens and lastFilled after the load, clamp and refill steps
Refill(tokens0, lastFilled0, maxCapacity, windowSeconds, now) ==
    LET t1 == IF tokens0 = Nil THEN 0 ELSE tokens0
        t2 == IF t1 > maxCapacity THEN maxCapacity ELSE t1
        lf == IF lastFilled0 = Nil THEN 0 ELSE lastFilled0
        fill == TokensToFill(now, lf, maxCapacity, windowSeconds)
    IN  IF t2 < maxCapacity /\ fill > 0
        THEN [tokens |-> Min(maxCapacity, t2 + fill), lastFilled |-> now]
        ELSE [tokens |-> t2, lastFilled |-> lf]

\* the take step with tokens > take instead of tokens >= take
Take_Strict(tok, take) ==
    IF tok > take
    THEN [tokens |-> tok - take, success |-> 1]
    ELSE [tokens |-> tok, success |-> 0]

\* the take step of the script
Take(tok, take) ==
    IF tok >= take
    THEN [tokens |-> tok - take, success |-> 1]
    ELSE [tokens |-> tok, success |-> 0]

\* calculateLeakyBucketFillTime rounding up from the next second
calculateLeakyBucketFillTime_OneMore(lastFillUnix, currentTokens, maxCapacity, windowSeconds) ==
    LET delta == maxCapacity - currentTokens
    IN  IF delta > 0
        THEN lastFillUnix + CeilDiv(delta * windowSeconds, maxCapacity) + 1
        ELSE lastFillUnix

\* calculateLeakyBucketFillTime
calculateLeakyBucketFillTime(lastFillUnix, currentTokens, maxCapacity, windowSeconds) ==
    LET delta == maxCapacity - currentTokens
    IN  IF delta > 0
        THEN lastFillUnix + Min(windowSeconds, CeilDiv(delta * windowSeconds, maxCapacity))
        ELSE lastFillUnix

LbInit ==
    /\ lbTokens = Nil
    /\ lbLastFill = Nil
    /\ lbExpireAt = Nil
    /\ lbClock = 0
    /\ lbCall = [op |-> "none"]
    /\ lbReply = NoReply

\* LeakyBucketImpl.Use
LbUse(maxCapacity, windowSeconds, now, takeAmount) ==
    LET filled == Refill(lbTokens, lbLastFill, maxCapacity, windowSeconds, now)
        taken  == Take(filled.tokens, takeAmount)
    IN  /\ lbTokens' = taken.tokens
        /\ lbLastFill' = filled.lastFilled
        /\ lbExpireAt' = lbClock + windowSeconds
        /\ lbCall' = [op |-> "Use", capacity |-> maxCapacity, windowSeconds |-> windowSeconds,
                      now |-> now, take |-> takeAmount, refilled |-> filled.tokens]
        /\ lbReply' = [op |-> "Use", success |-> (taken.success = 1),
                       remaining |-> taken.tokens,
                       resetAt |-> calculateLeakyBucketFillTime(filled.lastFilled,
                                       taken.tokens, maxCapacity, windowSeconds)]
        /\ UNCHANGED lbClock

\* the store's clock advances; keys whose TTL has run out are removed
LbTick ==
    /\ lbClock < MaxSeconds
    /\ lbClock' = lbClock + 1
    /\ IF lbExpireAt # Nil /\ lbClock + 1 >= lbExpireAt
       THEN lbTokens' = Nil /\ lbLastFill' = Nil /\ lbExpireAt' = Nil
       ELSE UNCHANGED <<lbTokens, lbLastFill, lbExpireAt>>
    /\ UNCHANGED <<lbCall, lbReply>>

\* LeakyBucketImpl.Use on a bucket whose options never change
BucketUse(now, takeAmount) ==
    /\ LbUse(lbCap, lbWin, now, takeAmount)
    /\ lbRun' = IF takeAmount = 1 /\ lbTokens = Nil /\ lbLastFill = Nil THEN 1
                ELSE IF takeAmount = 1 /\ lbRun > 0 /\ lbRun <= lbCap /\ lbCall.now = now
                     THEN lbRun + 1
                ELSE 0
    /\ lbOrdered' = (lbOrdered /\ (lbCall.op = "Use" => lbCall.now <= now))
    /\ lbNoNeg' = (lbNoNeg /\ takeAmount >= 0)
    /\ lbBase' = IF ~(lbOrdered' /\ lbNoNeg') THEN Nil
                 ELSE IF lbReply'.success /\ takeAmount > 0 THEN lbReply'.remaining
                 ELSE lbBase
    /\ lbHigh' = IF ~lbOrdered' THEN Nil
                 ELSE IF lbReply'.success /\ takeAmount > 0 THEN lbReply'.remaining
                 ELSE Max(lbHigh, lbReply'.remaining)
    /\ lbHighAt' = IF ~lbOrdered' THEN Nil
                   ELSE IF (lbReply'.success /\ takeAmount > 0) \/ lbReply'.remaining > lbHigh
                   THEN now
                   ELSE lbHighAt
    /\ lbPromise' = IF ~(lbOrdered' /\ lbNoNeg') THEN Nil
                    ELSE IF takeAmount # 0 \/ lbPromise = Nil THEN lbReply'.resetAt
                    ELSE Min(lbPromise, lbReply'.resetAt)
    /\ lbLate' = (/\ lbOrdered' /\ lbNoNeg'
                  /\ takeAmount = 0 /\ lbPromise # Nil /\ now >= lbPromise)
    /\ lbBurst' = IF ~(lbOrdered' /\ lbNoNeg') THEN 0
                  ELSE (IF lbCall.op = "Use" /\ lbCall.now = now THEN lbBurst ELSE 0)
                       + (IF lbReply'.success THEN takeAmount ELSE 0)
    /\ UNCHANGED <<lbCap, lbWin>>

\* the store's clock advances under that bucket
BucketTick ==
    /\ LbTick
    /\ lbRun' = IF lbExpireAt # Nil /\ lbClock + 1 >= lbExpireAt THEN 0 ELSE lbRun
    /\ lbBurst' = 0
    /\ UNCHANGED <<lbCap, lbWin, lbOrdered, lbNoNeg, lbBase, lbHigh, lbHighAt, lbPromise, lbLate>>

\* LeakyBucketImpl.Use with fixed options, run against the store and against
\* a store that keeps the keys for ever
ExpiryUse(now, takeAmount) ==
    LET filled == Refill(lbRefTokens, lbRefLastFill, lbCap, lbWin, now)
        taken  == Take(filled.tokens, takeAmount)
    IN  /\ LbUse(lbCap, lbWin, now, takeAmount)
        /\ lbRefTokens' = taken.tokens
        /\ lbRefLastFill' = filled.lastFilled
        /\ lbRefReply' = [op |-> "Use", success |-> (taken.success = 1),
                          remaining |-> taken.tokens,
                          resetAt |-> calculateLeakyBucketFillTime(filled.lastFilled,
                                          taken.tokens, lbCap, lbWin)]
        /\ lbAgree' = (lbAgree /\ now = lbClock)
        /\ lbOrdered' = (lbOrdered /\ (lbCall.op = "Use" => lbCall.now <= now))
        /\ lbNoNeg' = (lbNoNeg /\ takeAmount >= 0)
        /\ UNCHANGED <<lbCap, lbWin, lbRun, lbBase, lbHigh, lbHighAt, lbPromise, lbLate, lbBurst>>

\* the store's clock advances; only the store with a TTL loses its keys
ExpiryTick ==
    /\ LbTick
    /\ UNCHANGED <<lbHistVars, lbRefVars>>

(***************************************************************************)
(* The Go side of the redis limiters: the call of Adapter.Eval and the     *)
(* parsing of what it returns.  A value returned by Eval is nil, a string, *)
(* an int64 or a list of strings and int64s.                               *)
(***************************************************************************)
NilValue == [kind |-> "nil", v |-> 0, items |-> <<>>]
StrValue == [kind |-> "string", v |-> 0, items |-> <<>>]
IntValue(n) == [kind |-> "int64", v |-> n, items |-> <<>>]
ListValue(items) == [kind |-> "list", v |-> 0, items |-> items]

Scalars == {[kind |-> "string", v |-> 0]} \cup {[kind |-> "int64", v |-> n] : n \in 0..MaxReplyInt}

RECURSIVE SeqsUpTo(_, _)
\* the sequences over S of length at most n
SeqsUpTo(S, n) ==
    IF n = 0 THEN {<<>>}
    ELSE LET shorter == SeqsUpTo(S, n - 1)
         IN  shorter \cup {Append(q, x) : q \in shorter, x \in S}

\* the values Eval can return
Values ==
    {NilValue, StrValue} \cup {IntValue(n) : n \in 0..MaxReplyInt}
        \cup {ListValue(items) : items \in SeqsUpTo(Scalars, MaxReplyLen)}

\* what one invocation of Adapter.Eval returns: a value and no error, or an
\* error next to nil or next to a value
EvalReturns ==
    {[err |-> "none", value |-> val] : val \in Values}
        \cup {[err |-> e, value |-> val] :
                  e \in {"timeout", "refused"},
                  val \in {NilValue, IntValue(0),
                           ListValue(<<[kind |-> "int64", v |-> 1],
                                       [kind |-> "int64", v |-> 1]>>),
                           ListValue(<<[kind |-> "int64", v |-> 1],
                                       [kind |-> "int64", v |-> 0],
                                       [kind |-> "int64", v |-> 0]>>)}}

\* what a further invocation would return
EvalReturnsNext ==
    {[err |-> "none", value |-> ListValue(<<[kind |-> "int64", v |-> 1],
                                            [kind |-> "int64", v |-> 0],
                                            [kind |-> "int64", v |-> 0]>>)],
     [err |-> "none", value |-> ListValue(<<[kind |-> "int64", v |-> 1],
                                            [kind |-> "int64", v |-> 1]>>)],
     [err |-> "none", value |-> IntValue(0)],
     [err |-> "timeout", value |-> NilValue]}

NoResponse == [nil |-> TRUE]
NoError == [kind |-> "none", cause |-> "none"]
\* fmt.Errorf("failed to query redis adapter: %w", err)
AdapterError(e) == [kind |-> "adapter", cause |-> e]
\* the errors of the parse functions and of Inspect's type assertion
ParseError == [kind |-> "parse", cause |-> "none"]

\* parseRedisInt64Slice
parseRedisInt64Slice(val) ==
    IF val.kind # "list" THEN [err |-> TRUE, ints |-> <<>>]
    ELSE IF \E i \in 1..Len(val.items) : val.items[i].kind # "int64"
         THEN [err |-> TRUE, ints |-> <<>>]
         ELSE [err |-> FALSE, ints |-> [i \in 1..Len(val.items) |-> val.items[i].v]]

\* parseSlidingWindowResponse
parseSlidingWindowResponse(val) ==
    LET p == parseRedisInt64Slice(val)
    IN  IF p.err THEN [err |-> TRUE]
        ELSE IF Len(p.ints) # 2 THEN [err |-> TRUE]
        ELSE [err |-> FALSE, success |-> (p.ints[1] = 1), tokens |-> p.ints[2]]

\* parseLeakyBucketResponse without its length check: missing arguments read as 0
parseLeakyBucketResponse_AnyLength(val) ==
    IF val.kind # "list" THEN [err |-> TRUE]
    ELSE IF \E i \in 1..Len(val.items) : val.items[i].kind # "int64"
         THEN [err |-> TRUE]
         ELSE LET arg(i) == IF i <= Len(val.items) THEN val.items[i].v ELSE 0
              IN  [err |-> FALSE, success |-> (arg(1) = 1), remaining |-> arg(2),
                   lastFilled |-> arg(3)]

\* parseLeakyBucketResponse
parseLeakyBucketResponse(val) ==
    IF val.kind # "list" THEN [err |-> TRUE]
    ELSE IF Len(val.items) # 3 THEN [err |-> TRUE]
    ELSE IF \E i \in 1..3 : val.items[i].kind # "int64" THEN [err |-> TRUE]
    ELSE [err |-> FALSE, success |-> (val.items[1].v = 1), remaining |-> val.items[2].v,
          lastFilled |-> val.items[3].v]

\* LeakyBucketImpl.Use that asks the adapter again when Eval fails
LeakyBucketImpl_Use_Retry(evals, maxCapacity, windowSeconds) ==
    LET first == IF evals[1].err # "none" THEN evals[2] ELSE evals[1]
        n == IF evals[1].err # "none" THEN 2 ELSE 1
    IN  IF first.err # "none"
        THEN [resp |-> NoResponse, err |-> AdapterError(first.err), evals |-> n]
        ELSE LET output == parseLeakyBucketResponse(first.value)
             IN  IF output.err
                 THEN [resp |-> NoResponse, err |-> ParseError, evals |-> n]
                 ELSE [resp |-> [nil |-> FALSE, success |-> output.success,
                                 remaining |-> output.remaining,
                                 resetAt |-> calculateLeakyBucketFillTime(output.lastFilled,
                                     output.remaining, maxCapacity, windowSeconds)],
                       err |-> NoError, evals |-> n]

\* LeakyBucketImpl.Use around the script; evals[i] is what the adapter's i-th
\* Eval returns
LeakyBucketImpl_Use(evals, maxCapacity, windowSeconds) ==
    IF evals[1].err # "none"
    THEN [resp |-> NoResponse, err |-> AdapterError(evals[1].err), evals |-> 1]
    ELSE LET output == parseLeakyBucketResponse(evals[1].value)
         IN  IF output.err
             THEN [resp |-> NoResponse, err |-> ParseError, evals |-> 1]
             ELSE [resp |-> [nil |-> FALSE, success |-> output.success,
                             remaining |-> output.remaining,
                             resetAt |-> calculateLeakyBucketFillTime(output.lastFilled,
                                 output.remaining, maxCapacity, windowSeconds)],
                   err |-> NoError, evals |-> 1]

\* SlidingWindowImpl.Use around the script
SlidingWindowImpl_Use(evals, max) ==
    IF evals[1].err # "none"
    THEN [resp |-> NoResponse, err |-> AdapterError(evals[1].err), evals |-> 1]
    ELSE LET output == parseSlidingWindowResponse(evals[1].value)
         IN  IF output.err
             THEN [resp |-> NoResponse, err |-> ParseError, evals |-> 1]
             ELSE [resp |-> [nil |-> FALSE, success |-> output.success,
                             remaining |-> Max(max - output.tokens, 0)],
                   err |-> NoError, evals |-> 1]

\* SlidingWindowImpl.Inspect around the script
SlidingWindowImpl_Inspect(evals, max) ==
    IF evals[1].err # "none"
    THEN [resp |-> NoResponse, err |-> AdapterError(evals[1].err), evals |-> 1]
    ELSE IF evals[1].value.kind # "int64"
         THEN [resp |-> NoResponse, err |-> ParseError, evals |-> 1]
         ELSE [resp |-> [nil |-> FALSE, remaining |-> Max(max - evals[1].value.v, 0)],
               err |-> NoError, evals |-> 1]

AdapterInit ==
    /\ adCall = [method |-> "none"]
    /\ adResult = [resp |-> NoResponse, err |-> NoError, evals |-> 0]

\* a call of LeakyBucketImpl.Use
AdUseLeakyBucket ==
    /\ adCall.method = "none"
    /\ \E cap \in 0..MaxCapacity, windowSeconds \in 1..MaxWindowSeconds,
       first \in EvalReturns, second \in EvalReturnsNext :
        /\ adCall' = [method |-> "LeakyBucketImpl.Use", capacity |-> cap,
                      windowSeconds |-> windowSeconds, evals |-> <<first, second>>]
        /\ adResult' = LeakyBucketImpl_Use(<<first, second>>, cap, windowSeconds)

\* a call of SlidingWindowImpl.Use
AdUseSlidingWindow ==
    /\ adCall.method = "none"
    /\ \E cap \in 0..MaxCapacity, first \in EvalReturns, second \in EvalReturnsNext :
        /\ adCall' = [method |-> "SlidingWindowImpl.Use", capacity |-> cap,
                      windowSeconds |-> 0, evals |-> <<first, second>>]
        /\ adResult' = SlidingWindowImpl_Use(<<first, second>>, cap)

\* a call of SlidingWindowImpl.Inspect
AdInspectSlidingWindow ==
    /\ adCall.method = "none"
    /\ \E cap \in 0..MaxCapacity, first \in EvalReturns, second \in EvalReturnsNext :
        /\ adCall' = [method |-> "SlidingWindowImpl.Inspect", capacity |-> cap,
                      windowSeconds |-> 0, evals |-> <<first, second>>]
        /\ adResult' = SlidingWindowImpl_Inspect(<<first, second>>, cap)

\* the caller has the result and is free to call again
AdReturn ==
    /\ adCall.method # "none"
    /\ adCall' = [method |-> "none"]
    /\ adResult' = [resp |-> NoResponse, err |-> NoError, evals |-> 0]

(***************************************************************************)
(* local.leakyBucket and local.slidingWindow                               *)
(*                                                                         *)
(* Time is kept relative to the present: the state holds how long ago      *)
(* lastFill was and how long each window entry and each timer has left.    *)
(* Elapse(k) is the passing of k ticks.  A call that reads the clock more  *)
(* than once takes the ticks that pass between its readings as input.      *)
(***************************************************************************)
RECURSIVE SeqMap(_, _)
\* entries of the sequence s shifted by k ticks, expired ones kept at 0
SeqMap(s, k) == IF s = <<>> THEN <<>> ELSE <<Max(Head(s) - k, 0)>> \o SeqMap(Tail(s), k)

RECURSIVE AgeBy(_, _, _)
\* admission ages grown by k ticks, those no longer younger than d dropped
AgeBy(s, k, d) ==
    IF s = <<>> THEN <<>>
    ELSE IF Head(s) + k < d THEN <<Head(s) + k>> \o AgeBy(Tail(s), k, d)
         ELSE AgeBy(Tail(s), k, d)

\* the timers of the goroutines suspended in awaitNextToken, k ticks later
TimersAfter(k) == [p \in Procs |-> IF pc[p] = "sleep" THEN Max(timer[p] - k, 0) ELSE timer[p]]

SinceAfter(since, k) == Min(since + k, rate * capacity)

\* NewLeakyBucket that starts with an empty bucket
NewLeakyBucket_Empty(tokensPerWindow, win) ==
    /\ limiter = "leaky"
    /\ capacity = tokensPerWindow
    /\ rate = win \div tokensPerWindow
    /\ tokens = 0
    /\ sinceLastFill = 0
    /\ duration = 0
    /\ window = <<>>

\* NewLeakyBucket(tokensPerWindow, window)
NewLeakyBucket(tokensPerWindow, win) ==
    /\ limiter = "leaky"
    /\ capacity = tokensPerWindow
    /\ rate = win \div tokensPerWindow
    /\ tokens = tokensPerWindow
    /\ sinceLastFill = 0
    /\ duration = 0
    /\ window = <<>>

\* NewSlidingWindow(capacity, duration), arguments that pass validation
NewSlidingWindow(cap, dur) ==
    /\ limiter = "sliding"
    /\ capacity = cap
    /\ duration = dur
    /\ window = <<>>
    /\ rate = 1
    /\ tokens = 0
    /\ sinceLastFill = 0

\* the error NewSlidingWindow returns, with the duration checked first
NewSlidingWindowError_DurationFirst(cap, dur) ==
    IF dur <= 0 THEN "ErrDuration"
    ELSE IF cap <= 0 THEN "ErrCapacity"
    ELSE "nil"

\* the error NewSlidingWindow(capacity, duration) returns
NewSlidingWindowError(cap, dur) ==
    IF cap <= 0 THEN "ErrCapacity"
    ELSE IF dur <= 0 THEN "ErrDuration"
    ELSE "nil"

\* no NewSlidingWindow call has been made
CtorInit ==
    /\ newArgs = [capacity |-> 0, duration |-> 0]
    /\ newErr = "none"

\* a call of NewSlidingWindow with any arguments, while the caller has no limiter
Construct ==
    /\ limiter = "none"
    /\ \E cap \in -1..MaxLocalCapacity, dur \in -1..LocalWindow :
          /\ newArgs' = [capacity |-> cap, duration |-> dur]
          /\ newErr' = NewSlidingWindowError(cap, dur)
          /\ IF NewSlidingWindowError(cap, dur) = "nil"
             THEN /\ limiter' = "sliding"
                  /\ capacity' = cap
                  /\ duration' = dur
                  /\ window' = <<>>
                  /\ UNCHANGED <<rate, tokens, sinceLastFill, admitAges>>
             ELSE UNCHANGED limVars
    /\ UNCHANGED goVars

\* unsafeFill without math.Min
unsafeFill_NoMin(tok, since, e1) ==
    IF tok >= capacity
    THEN [tokens |-> tok, since |-> since, elapsed |-> 0]
    ELSE [tokens |-> tok + (since \div rate), since |-> 0, elapsed |-> e1]

\* leakyBucket.unsafeFill; e1 ticks pass between time.Since and time.Now
unsafeFill(tok, since, e1) ==
    IF tok >= capacity
    THEN [tokens |-> tok, since |-> since, elapsed |-> 0]
    ELSE [tokens |-> Min(tok + (since \div rate), capacity), since |-> 0, elapsed |-> e1]

\* leakyBucket.TryTakeWithDuration returning time.Until(r.lastFill), the rate left out
LbTryTakeFrom_NoRate(tok, since, e1, e2) ==
    LET f == unsafeFill(tok, since, e1)
    IN  IF f.tokens < 1
        THEN [ok |-> FALSE, d |-> 0 - (f.since + e2), tokens |-> f.tokens,
              since |-> SinceAfter(f.since, e2), elapsed |-> f.elapsed + e2, taken |-> 0]
        ELSE [ok |-> TRUE, d |-> 0, tokens |-> f.tokens - 1,
              since |-> f.since, elapsed |-> f.elapsed, taken |-> 1]

\* leakyBucket.TryTakeWithDuration on a bucket holding tok tokens, last filled
\* since ticks ago; e2 ticks pass before time.Until reads the clock
LbTryTakeFrom(tok, since, e1, e2) ==
    LET f == unsafeFill(tok, since, e1)
    IN  IF f.tokens < 1
        THEN [ok |-> FALSE, d |-> rate - (f.since + e2), tokens |-> f.tokens,
              since |-> SinceAfter(f.since, e2), elapsed |-> f.elapsed + e2, taken |-> 0]
        ELSE [ok |-> TRUE, d |-> 0, tokens |-> f.tokens - 1,
              since |-> f.since, elapsed |-> f.elapsed, taken |-> 1]

\* leakyBucket.TryTakeWithDuration
LbTryTakeWithDuration(e1, e2) == LbTryTakeFrom(tokens, sinceLastFill, e1, e2)

\* leakyBucket.Size
LbSize(e1) ==
    LET f == unsafeFill(tokens, sinceLastFill, e1)
    IN  [size |-> f.tokens, tokens |-> f.tokens, since |-> f.since, elapsed |-> f.elapsed]

\* clean that removes nothing: expired entries stay in the window
clean_NoEvict(w) == w

RECURSIVE clean(_)
\* slidingWindow.clean: drop the prefix of entries that are not after now
clean(w) == IF w # <<>> /\ Head(w) <= 0 THEN clean(Tail(w)) ELSE w

\* slidingWindow.TryTakeWithDuration with len(window) > capacity as its test
SwTryTakeWithDuration_OffByOne(e1) ==
    LET w == clean(window)
    IN  IF Len(w) > capacity
        THEN [ok |-> FALSE, d |-> w[1] - e1, window |-> SeqMap(w, e1), elapsed |-> e1, taken |-> 0]
        ELSE [ok |-> TRUE, d |-> 0, window |-> Append(SeqMap(w, e1), duration),
              elapsed |-> e1, taken |-> 1]

\* slidingWindow.TryTakeWithDuration returning the time until the newest entry expires
SwTryTakeWithDuration_Newest(e1) ==
    LET w == clean(window)
    IN  IF Len(w) >= capacity
        THEN [ok |-> FALSE, d |-> w[Len(w)] - e1, window |-> SeqMap(w, e1),
              elapsed |-> e1, taken |-> 0]
        ELSE [ok |-> TRUE, d |-> 0, window |-> Append(SeqMap(w, e1), duration),
              elapsed |-> e1, taken |-> 1]

\* slidingWindow.TryTakeWithDuration putting the new entry in front of the window
SwTryTakeWithDuration_Prepend(e1) ==
    LET w == clean(window)
    IN  IF Len(w) >= capacity
        THEN [ok |-> FALSE, d |-> w[1] - e1, window |-> SeqMap(w, e1), elapsed |-> e1, taken |-> 0]
        ELSE [ok |-> TRUE, d |-> 0, window |-> <<duration>> \o SeqMap(w, e1),
              elapsed |-> e1, taken |-> 1]

\* slidingWindow.TryTakeWithDuration; e1 ticks pass between clean's clock reading and the next
SwTryTakeWithDuration(e1) ==
    LET w == clean(window)
    IN  IF Len(w) >= capacity
        THEN [ok |-> FALSE, d |-> w[1] - e1, window |-> SeqMap(w, e1), elapsed |-> e1, taken |-> 0]
        ELSE [ok |-> TRUE, d |-> 0, window |-> Append(SeqMap(w, e1), duration),
              elapsed |-> e1, taken |-> 1]

\* slidingWindow.Size
SwSize == LET w == clean(window) IN [size |-> Len(w), window |-> w, elapsed |-> 0]

\* TryTakeWithDuration of the limiter in use
TryTakeWithDuration(e1, e2) ==
    IF limiter = "leaky"
    THEN LET r == LbTryTakeWithDuration(e1, e2)
         IN  [ok |-> r.ok, d |-> r.d, tokens |-> r.tokens, since |-> r.since,
              window |-> window, elapsed |-> r.elapsed, taken |-> r.taken]
    ELSE LET r == SwTryTakeWithDuration(e1)
         IN  [ok |-> r.ok, d |-> r.d, tokens |-> tokens, since |-> sinceLastFill,
              window |-> r.window, elapsed |-> r.elapsed, taken |-> r.taken]

\* Size of the limiter in use
LimiterSize(e1) ==
    IF limiter = "leaky"
    THEN LET s == LbSize(e1)
         IN  [size |-> s.size, tokens |-> s.tokens, since |-> s.since,
              window |-> window, elapsed |-> s.elapsed, taken |-> 0]
    ELSE LET s == SwSize
         IN  [size |-> s.size, tokens |-> tokens, since |-> sinceLastFill,
              window |-> s.window, elapsed |-> s.elapsed, taken |-> 0]

\* the limiter's state after a call with result r
Store(r) ==
    /\ tokens' = r.tokens
    /\ sinceLastFill' = r.since
    /\ window' = r.window
    /\ admitAges' = IF limiter = "sliding"
                    THEN LET aged == AgeBy(admitAges, r.elapsed, duration)
                         IN  IF r.taken = 1 THEN Append(aged, 0) ELSE aged
                    ELSE admitAges
    /\ UNCHANGED <<limiter, capacity, rate, duration>>

NoRet == [kind |-> "none"]

LocalInit ==
    /\ \E cap \in 1..MaxLocalCapacity :
          \/ NewLeakyBucket(cap, LocalWindow)
          \/ NewSlidingWindow(cap, LocalWindow)
    /\ admitAges = <<>>
    /\ ctxDone = FALSE
    /\ pc = [p \in Procs |-> "idle"]
    /\ op = [p \in Procs |-> "none"]
    /\ timer = [p \in Procs |-> 0]
    /\ ret = NoRet
    /\ took = [p \in Procs |-> 0]
    /\ cbCalls = [p \in Procs |-> 0]
    /\ takes = 0

\* TryTake / TryTakeWithDuration called by goroutine p
TryTake(p) ==
    /\ pc[p] = "idle"
    /\ takes < MaxTakes
    /\ \E e1, e2 \in 0..MaxSkew :
          LET r == TryTakeWithDuration(e1, e2)
          IN  /\ Store(r)
              /\ ret' = [kind |-> "take", ok |-> r.ok, d |-> r.d]
              /\ timer' = TimersAfter(r.elapsed)
              /\ takes' = takes + r.taken
    /\ UNCHANGED <<ctxDone, pc, op, took, cbCalls>>

\* Size called by goroutine p
Size(p) ==
    /\ pc[p] = "idle"
    /\ \E e1 \in 0..MaxSkew :
          LET r == LimiterSize(e1)
          IN  /\ Store(r)
              /\ ret' = [kind |-> "size", size |-> r.size]
              /\ timer' = TimersAfter(r.elapsed)
    /\ UNCHANGED <<ctxDone, pc, op, took, cbCalls, takes>>

\* Wait(ctx) called by goroutine p: it enters the loop of wait
Wait(p) ==
    /\ pc[p] = "idle"
    /\ pc' = [pc EXCEPT ![p] = "try"]
    /\ op' = [op EXCEPT ![p] = "Wait"]
    /\ UNCHANGED <<limVars, ctxDone, timer, ret, took, cbCalls, takes>>

\* WaitFunc(ctx, cb): the goroutine it spawns enters the loop of wait
WaitFunc(p) ==
    /\ pc[p] = "idle"
    /\ pc' = [pc EXCEPT ![p] = "try"]
    /\ op' = [op EXCEPT ![p] = "WaitFunc"]
    /\ UNCHANGED <<limVars, ctxDone, timer, ret, took, cbCalls, takes>>

\* wait that does not return after a successful take and tries again
wait_KeepsTaking(p) ==
    /\ pc[p] = "try"
    /\ \E e1, e2 \in 0..MaxSkew :
          LET r == TryTakeWithDuration(e1, e2)
          IN  /\ Store(r)
              /\ ret' = [kind |-> "take", ok |-> r.ok, d |-> r.d]
              /\ took' = [took EXCEPT ![p] = Min(@ + r.taken, 2)]
              /\ pc' = [pc EXCEPT ![p] = IF r.ok THEN "try" ELSE "sleep"]
              /\ timer' = [TimersAfter(r.elapsed) EXCEPT ![p] = IF r.ok THEN 0 ELSE Max(r.d, 0)]
    /\ UNCHANGED <<ctxDone, op, cbCalls, takes>>

\* one iteration of wait: TryTakeWithDuration, then return true or arm the timer
wait(p) ==
    /\ pc[p] = "try"
    /\ \E e1, e2 \in 0..MaxSkew :
          LET r == TryTakeWithDuration(e1, e2)
          IN  /\ Store(r)
              /\ ret' = [kind |-> "take", ok |-> r.ok, d |-> r.d]
              /\ took' = [took EXCEPT ![p] = @ + r.taken]
              /\ pc' = [pc EXCEPT ![p] = IF r.ok
                                         THEN IF op[p] = "WaitFunc" THEN "cb" ELSE "returned"
                                         ELSE "sleep"]
              /\ timer' = [TimersAfter(r.elapsed) EXCEPT ![p] = IF r.ok THEN 0 ELSE Max(r.d, 0)]
    /\ UNCHANGED <<ctxDone, op, cbCalls, takes>>

\* awaitNextToken: the select takes <-timer.C
awaitTimer(p) ==
    /\ pc[p] = "sleep"
    /\ timer[p] = 0
    /\ pc' = [pc EXCEPT ![p] = "try"]
    /\ UNCHANGED <<limVars, ctxDone, op, timer, ret, took, cbCalls, takes>>

\* awaitNextToken returning true on <-ctx.Done(): the loop of wait goes on
awaitCtxDone_ReturnsTrue(p) ==
    /\ pc[p] = "sleep"
    /\ ctxDone
    /\ pc' = [pc EXCEPT ![p] = "try"]
    /\ timer' = [timer EXCEPT ![p] = 0]
    /\ UNCHANGED <<limVars, ctxDone, op, ret, took, cbCalls, takes>>

\* awaitNextToken: the select takes <-ctx.Done(), wait returns false
awaitCtxDone(p) ==
    /\ pc[p] = "sleep"
    /\ ctxDone
    /\ pc' = [pc EXCEPT ![p] = "aborted"]
    /\ timer' = [timer EXCEPT ![p] = 0]
    /\ UNCHANGED <<limVars, ctxDone, op, ret, took, cbCalls, takes>>

\* the goroutine of WaitFunc calls cb after wait returned true
callCb(p) ==
    /\ pc[p] = "cb"
    /\ cbCalls' = [cbCalls EXCEPT ![p] = @ + 1]
    /\ pc' = [pc EXCEPT ![p] = "returned"]
    /\ UNCHANGED <<limVars, ctxDone, op, timer, ret, took, takes>>

\* the caller cancels the context
cancel ==
    /\ ~ctxDone
    /\ ctxDone' = TRUE
    /\ UNCHANGED <<limVars, pc, op, timer, ret, took, cbCalls, takes>>

\* one tick of the clock passes
Tick ==
    /\ sinceLastFill' = SinceAfter(sinceLastFill, 1)
    /\ window' = SeqMap(window, 1)
    /\ admitAges' = AgeBy(admitAges, 1, duration)
    /\ timer' = TimersAfter(1)
    /\ UNCHANGED <<limiter, capacity, rate, duration, tokens,
                   ctxDone, pc, op, ret, took, cbCalls, takes>>

(***************************************************************************)
(* The calls of a local limiter step by step.  Lock and the deferred       *)
(* Unlock of r.m are steps of their own, and so are the load and the       *)
(* write-back of a take (r.tokens--, r.window = append(r.window, ...)):    *)
(* Go gives no atomicity to either outside the mutex.  A goroutine is at   *)
(* "lock" before r.m.Lock(), at "fill", "test", "store" and "unlock"       *)
(* inside the locked region, at "sleep" in awaitNextToken.                 *)
(***************************************************************************)
NoPend == [kind |-> "none"]

MuInit ==
    /\ mu = {}
    /\ loaded = [p \in Procs |-> Nil]
    /\ pend = [p \in Procs |-> NoPend]
    /\ units0 = 0
    /\ quiet = TRUE

\* goroutine p calls TryTake / TryTakeWithDuration, Size or Wait
MuCall(p, method) ==
    /\ pc[p] = "idle"
    /\ pc' = [pc EXCEPT ![p] = "lock"]
    /\ op' = [op EXCEPT ![p] = method]
    /\ UNCHANGED <<limVars, ctxDone, timer, ret, took, cbCalls, takes, muVars>>

\* r.m.Lock() that does not wait for the mutex to be free
MuLock_NoExclusion(p) ==
    /\ pc[p] = "lock"
    /\ mu' = mu \cup {p}
    /\ pc' = [pc EXCEPT ![p] = "fill"]
    /\ UNCHANGED <<limVars, ctxDone, op, timer, ret, took, cbCalls, takes,
                   loaded, pend, units0, quiet>>

\* r.m.Lock()
MuLock(p) ==
    /\ pc[p] = "lock"
    /\ mu = {}
    /\ mu' = {p}
    /\ pc' = [pc EXCEPT ![p] = "fill"]
    /\ UNCHANGED <<limVars, ctxDone, op, timer, ret, took, cbCalls, takes,
                   loaded, pend, units0, quiet>>

\* r.unsafeFill() / r.clean() at the head of TryTakeWithDuration and Size;
\* Size then evaluates its return value
MuFill(p) ==
    /\ pc[p] = "fill"
    /\ LET f == unsafeFill(tokens, sinceLastFill, 0)
           w == clean(window)
       IN  /\ IF limiter = "leaky"
              THEN tokens' = f.tokens /\ sinceLastFill' = f.since /\ UNCHANGED window
              ELSE window' = w /\ UNCHANGED <<tokens, sinceLastFill>>
           /\ IF op[p] = "Size"
              THEN /\ pend' = [pend EXCEPT ![p] =
                                  [kind |-> "size",
                                   size |-> IF limiter = "leaky" THEN f.tokens ELSE Len(w)]]
                   /\ pc' = [pc EXCEPT ![p] = "unlock"]
              ELSE /\ UNCHANGED pend
                   /\ pc' = [pc EXCEPT ![p] = "test"]
    /\ UNCHANGED <<limiter, capacity, rate, duration, admitAges,
                   ctxDone, op, timer, ret, took, cbCalls, takes,
                   mu, loaded, units0, quiet>>

\* the test of TryTakeWithDuration: nothing available, return false and the
\* duration; or load what the take will write back
MuTest(p) ==
    /\ pc[p] = "test"
    /\ IF limiter = "leaky"
       THEN IF tokens < 1
            THEN /\ pend' = [pend EXCEPT ![p] =
                                [kind |-> "take", ok |-> FALSE, d |-> rate - sinceLastFill]]
                 /\ pc' = [pc EXCEPT ![p] = "unlock"]
                 /\ UNCHANGED loaded
            ELSE /\ loaded' = [loaded EXCEPT ![p] = tokens]
                 /\ pc' = [pc EXCEPT ![p] = "store"]
                 /\ UNCHANGED pend
       ELSE IF Len(window) >= capacity
            THEN /\ pend' = [pend EXCEPT ![p] =
                                [kind |-> "take", ok |-> FALSE, d |-> window[1]]]
                 /\ pc' = [pc EXCEPT ![p] = "unlock"]
                 /\ UNCHANGED loaded
            ELSE /\ loaded' = [loaded EXCEPT ![p] = window]
                 /\ pc' = [pc EXCEPT ![p] = "store"]
                 /\ UNCHANGED pend
    /\ UNCHANGED <<limVars, ctxDone, op, timer, ret, took, cbCalls, takes,
                   mu, units0, quiet>>

\* the write-back of the take: r.tokens-- / r.window = append(r.window, ...)
MuStore(p) ==
    /\ pc[p] = "store"
    /\ IF limiter = "leaky"
       THEN tokens' = loaded[p] - 1 /\ UNCHANGED window
       ELSE window' = Append(loaded[p], duration) /\ UNCHANGED tokens
    /\ loaded' = [loaded EXCEPT ![p] = Nil]
    /\ pend' = [pend EXCEPT ![p] = [kind |-> "take", ok |-> TRUE, d |-> 0]]
    /\ took' = [took EXCEPT ![p] = @ + 1]
    /\ pc' = [pc EXCEPT ![p] = "unlock"]
    /\ UNCHANGED <<limiter, capacity, rate, duration, sinceLastFill, admitAges,
                   ctxDone, op, timer, ret, cbCalls, takes, mu, units0, quiet>>

\* where a goroutine goes when its TryTakeWithDuration or Size returns: Wait
\* returns after a take and calls awaitNextToken after a refusal
AfterReturn(p) ==
    IF op[p] = "Wait" /\ ~pend[p].ok THEN "sleep" ELSE "returned"

\* a wait that keeps r.m locked while it is in awaitNextToken
MuUnlock_HeldWhileWaiting(p) ==
    /\ pc[p] = "unlock"
    /\ mu' = IF AfterReturn(p) = "sleep" THEN mu ELSE mu \ {p}
    /\ ret' = pend[p]
    /\ pc' = [pc EXCEPT ![p] = AfterReturn(p)]
    /\ timer' = [timer EXCEPT ![p] = IF AfterReturn(p) = "sleep" THEN Max(pend[p].d, 0) ELSE @]
    /\ UNCHANGED <<limVars, ctxDone, op, took, cbCalls, takes,
                   loaded, pend, units0, quiet>>

\* the deferred r.m.Unlock() and the return; awaitNextToken starts its timer
MuUnlock(p) ==
    /\ pc[p] = "unlock"
    /\ mu' = mu \ {p}
    /\ ret' = pend[p]
    /\ pc' = [pc EXCEPT ![p] = AfterReturn(p)]
    /\ timer' = [timer EXCEPT ![p] = IF AfterReturn(p) = "sleep" THEN Max(pend[p].d, 0) ELSE @]
    /\ UNCHANGED <<limVars, ctxDone, op, took, cbCalls, takes,
                   loaded, pend, units0, quiet>>

\* awaitNextToken: the select takes <-timer.C, wait calls TryTakeWithDuration again
MuAwaitTimer(p) ==
    /\ pc[p] = "sleep"
    /\ timer[p] = 0
    /\ pc' = [pc EXCEPT ![p] = "lock"]
    /\ UNCHANGED <<limVars, ctxDone, op, timer, ret, took, cbCalls, takes, muVars>>

\* awaitNextToken: the select takes <-ctx.Done(), wait returns false
MuAwaitCtxDone(p) ==
    /\ awaitCtxDone(p)
    /\ UNCHANGED muVars

\* the caller cancels the context
MuCancel ==
    /\ cancel
    /\ UNCHANGED muVars

\* one tick of the clock passes; a loaded window holds the same timestamps
\* as r.window, so its entries come one tick closer as well
MuTick ==
    /\ Tick
    /\ quiet' = FALSE
    /\ loaded' = [p \in Procs |-> IF limiter = "sliding" /\ pc[p] = "store"
                                  THEN SeqMap(loaded[p], 1)
                                  ELSE loaded[p]]
    /\ UNCHANGED <<mu, pend, units0>>

(***************************************************************************)
(* One caller that calls TryTakeWithDuration and Size one after the other. *)
(* Next to the limiter the state holds the reference run (the same         *)
(* TryTakeWithDuration calls at the same instants on a leaky bucket that   *)
(* is never asked for its Size) and the earliest outstanding promise of a  *)
(* refused take.                                                           *)
(***************************************************************************)
\* ticks that may pass between the clock readings of one call: the leaky
\* bucket is compared with its reference run on calls that take no time
SeqSkew == IF limiter = "leaky" THEN {0} ELSE 0..MaxSkew

\* promise pr, k ticks later
PromiseAfter(pr, k) == IF pr = Nil THEN Nil ELSE Max(pr - k, 0)

\* the call's unsafeFill adds a token, or its clean evicts an entry
Replenishes(e1) ==
    IF limiter = "leaky"
    THEN unsafeFill(tokens, sinceLastFill, e1).tokens > tokens
    ELSE clean(window) # window

\* TryTakeWithDuration, in the run and in the reference run
SeqTryTake ==
    /\ \E e1, e2 \in SeqSkew :
          LET r   == TryTakeWithDuration(e1, e2)
              ref == LbTryTakeFrom(refTokens, refSince, e1, e2)
          IN  /\ Store(r)
              /\ ret' = [kind |-> "take", ok |-> r.ok, d |-> r.d]
              /\ promise' = IF r.ok THEN Nil
                            ELSE IF promise = Nil THEN Max(r.d, 0)
                            ELSE Min(PromiseAfter(promise, r.elapsed), Max(r.d, 0))
              /\ IF limiter = "leaky"
                 THEN /\ refTokens' = ref.tokens
                      /\ refSince' = ref.since
                      /\ refRet' = [kind |-> "take", ok |-> ref.ok, d |-> ref.d]
                 ELSE UNCHANGED <<refTokens, refSince, refRet>>
              /\ pristine' = (pristine /\ ~Replenishes(e1))
              /\ IF tries <= capacity
                 THEN tries' = tries + 1 /\ succ' = succ + r.taken
                 ELSE UNCHANGED <<tries, succ>>
    /\ UNCHANGED <<ctxDone, pc, op, timer, took, cbCalls, takes>>

\* Size, in the run only
SeqSize ==
    /\ \E e1 \in SeqSkew :
          LET r == LimiterSize(e1)
          IN  /\ Store(r)
              /\ ret' = [kind |-> "size", size |-> r.size]
              /\ promise' = PromiseAfter(promise, r.elapsed)
              /\ pristine' = (pristine /\ ~Replenishes(e1))
    /\ UNCHANGED <<ctxDone, pc, op, timer, took, cbCalls, takes>>
    /\ UNCHANGED <<refTokens, refSince, refRet, tries, succ>>

\* one tick of the clock passes, in the run and in the reference run
SeqTick ==
    /\ Tick
    /\ refSince' = SinceAfter(refSince, 1)
    /\ promise' = PromiseAfter(promise, 1)
    /\ UNCHANGED <<refTokens, refRet, pristine, tries, succ>>

(***************************************************************************)
(* Specifications                                                          *)
(***************************************************************************)
\* the local limiters while a redis limiter is checked
LocalIdle ==
    /\ NewSlidingWindow(1, 1)
    /\ admitAges = <<>>
    /\ ctxDone = FALSE
    /\ pc = [p \in Procs |-> "idle"]
    /\ op = [p \in Procs |-> "none"]
    /\ timer = [p \in Procs |-> 0]
    /\ ret = NoRet
    /\ took = [p \in Procs |-> 0]
    /\ cbCalls = [p \in Procs |-> 0]
    /\ takes = 0

\* no local limiter is in use
LocalNone ==
    /\ limiter = "none"
    /\ capacity = 0
    /\ rate = 1
    /\ duration = 0
    /\ tokens = 0
    /\ sinceLastFill = 0
    /\ window = <<>>
    /\ admitAges = <<>>
    /\ ctxDone = FALSE
    /\ pc = [p \in Procs |-> "idle"]
    /\ op = [p \in Procs |-> "none"]
    /\ timer = [p \in Procs |-> 0]
    /\ ret = NoRet
    /\ took = [p \in Procs |-> 0]
    /\ cbCalls = [p \in Procs |-> 0]
    /\ takes = 0

\* the history of a bucket before its first call
LbHistInit ==
    /\ lbRun = 0
    /\ lbOrdered = TRUE
    /\ lbNoNeg = TRUE
    /\ lbBase = Nil
    /\ lbHigh = Nil
    /\ lbHighAt = Nil
    /\ lbPromise = Nil
    /\ lbLate = FALSE
    /\ lbBurst = 0

\* no bucket with fixed options is in use
LbHistIdle ==
    /\ lbCap = 0
    /\ lbWin = 1
    /\ LbHistInit

\* the reference run and the promise before any call
RefInit ==
    /\ refTokens = tokens
    /\ refSince = sinceLastFill
    /\ refRet = NoRet
    /\ promise = Nil
    /\ pristine = TRUE
    /\ tries = 0
    /\ succ = 0
    /\ refZset = {}
    /\ refZsetExpireAt = Nil
    /\ refSwReply = NoReply

\* the store without expiry before any call
LbRefInit ==
    /\ lbRefTokens = Nil
    /\ lbRefLastFill = Nil
    /\ lbRefReply = NoReply
    /\ lbAgree = TRUE

\* the history variables before any call
AuxInit == RefInit /\ LbHistIdle /\ AdapterInit /\ CtorInit /\ LbRefInit /\ MuInit
           /\ TtlInit

InitDSW == SwInit /\ LbInit /\ LocalIdle /\ AuxInit
NextDSW ==
    \/ \E now \in 0..MaxNow : SwUse(now) /\ UNCHANGED <<lbVars, localVars, auxVars>>
    \/ \E now \in 0..MaxNow : SwInspect(now) /\ UNCHANGED <<lbVars, localVars, auxVars>>
    \/ SwTick /\ UNCHANGED <<lbVars, localVars, auxVars>>
SpecDSW == InitDSW /\ [][NextDSW]_vars

\* the key's TTL at work
InitTTL == SwInit /\ LbInit /\ LocalIdle /\ AuxInit
NextTTL ==
    \/ \E now \in 0..MaxNow :
          TtlUse(now) /\ UNCHANGED <<lbVars, localVars, seqVars, refSwVars, lbHistVars, adapterVars, ctorVars, lbRefVars, muVars>>
    \/ \E now \in 0..MaxNow :
          TtlInspect(now) /\ UNCHANGED <<lbVars, localVars, seqVars, refSwVars, lbHistVars, adapterVars, ctorVars, lbRefVars, muVars>>
    \/ TtlTick /\ UNCHANGED <<lbVars, localVars, seqVars, refSwVars, lbHistVars, adapterVars, ctorVars, lbRefVars, muVars>>
SpecTTL == InitTTL /\ [][NextTTL]_vars

\* the calls carry non-decreasing timestamps
InitPair == SwInit /\ LbInit /\ LocalIdle /\ AuxInit
NextPair ==
    \/ \E now \in swLastNow..MaxNow :
          PairUse(now) /\ UNCHANGED <<lbVars, localVars, seqVars, lbHistVars, adapterVars, ctorVars, lbRefVars, muVars, swTtlVars>>
    \/ \E now \in swLastNow..MaxNow :
          PairInspect(now) /\ UNCHANGED <<lbVars, localVars, seqVars, lbHistVars, adapterVars, ctorVars, lbRefVars, muVars, swTtlVars>>
    \/ PairTick /\ UNCHANGED <<lbVars, localVars, seqVars, lbHistVars, adapterVars, ctorVars, lbRefVars, muVars, swTtlVars>>
SpecPair == InitPair /\ [][NextPair]_vars

InitDLB == SwInit /\ swMax = MaxCapacity /\ swWindow = MaxWindow /\ LbInit /\ LocalIdle
           /\ AuxInit
NextDLB ==
    \/ \E cap \in 0..MaxCapacity, windowSeconds \in 1..MaxWindowSeconds,
          now \in 0..MaxSeconds, takeAmount \in -1..(MaxCapacity + 1) :
            LbUse(cap, windowSeconds, now, takeAmount) /\ UNCHANGED <<swVars, localVars, auxVars>>
    \/ LbTick /\ UNCHANGED <<swVars, localVars, auxVars>>
SpecDLB == InitDLB /\ [][NextDLB]_vars

\* one bucket whose callers all pass the same MaximumCapacity and WindowSeconds
InitBucket ==
    /\ SwInit /\ swMax = MaxCapacity /\ swWindow = MaxWindow /\ LbInit /\ LocalIdle
    /\ RefInit /\ AdapterInit /\ CtorInit /\ LbRefInit /\ MuInit /\ TtlInit
    /\ lbCap \in 0..MaxCapacity
    /\ lbWin \in 1..MaxBucketWindow
    /\ LbHistInit
NextBucket ==
    \/ \E now \in 0..MaxBucketSeconds, takeAmount \in -1..MaxCapacity :
            BucketUse(now, takeAmount) /\ UNCHANGED <<swVars, localVars, seqVars, refSwVars, adapterVars, ctorVars, lbRefVars, muVars, swTtlVars>>
    \/ BucketTick /\ UNCHANGED <<swVars, localVars, seqVars, refSwVars, adapterVars, ctorVars, lbRefVars, muVars, swTtlVars>>
SpecBucket == InitBucket /\ [][NextBucket]_vars

\* that bucket next to its copy in a store without key expiry
InitExpiry == InitBucket
NextExpiry ==
    \/ \E now \in 0..MaxSeconds, takeAmount \in -1..MaxCapacity :
            ExpiryUse(now, takeAmount) /\ UNCHANGED <<swVars, localVars, seqVars, refSwVars, adapterVars, ctorVars, muVars, swTtlVars>>
    \/ ExpiryTick /\ UNCHANGED <<swVars, localVars, seqVars, refSwVars, adapterVars, ctorVars, muVars, swTtlVars>>
SpecExpiry == InitExpiry /\ [][NextExpiry]_vars

\* the Go methods of the redis limiters over an adapter that returns anything
InitAdapter == SwInit /\ swMax = MaxCapacity /\ swWindow = MaxWindow /\ LbInit /\ LocalIdle
               /\ AuxInit
NextAdapter ==
    \/ AdUseLeakyBucket /\ UNCHANGED <<swVars, lbVars, localVars, seqVars, refSwVars, lbHistVars, ctorVars, lbRefVars, muVars, swTtlVars>>
    \/ AdUseSlidingWindow /\ UNCHANGED <<swVars, lbVars, localVars, seqVars, refSwVars, lbHistVars, ctorVars, lbRefVars, muVars, swTtlVars>>
    \/ AdInspectSlidingWindow /\ UNCHANGED <<swVars, lbVars, localVars, seqVars, refSwVars, lbHistVars, ctorVars, lbRefVars, muVars, swTtlVars>>
    \/ AdReturn /\ UNCHANGED <<swVars, lbVars, localVars, seqVars, refSwVars, lbHistVars, ctorVars, lbRefVars, muVars, swTtlVars>>
SpecAdapter == InitAdapter /\ [][NextAdapter]_vars

InitLocal == SwInit /\ swMax = MaxCapacity /\ swWindow = MaxWindow /\ LbInit /\ LocalInit
             /\ AuxInit
NextLocal ==
    \/ \E p \in Procs : TryTake(p) /\ UNCHANGED <<swVars, lbVars, auxVars>>
    \/ \E p \in Procs : Size(p) /\ UNCHANGED <<swVars, lbVars, auxVars>>
    \/ \E p \in Procs : Wait(p) /\ UNCHANGED <<swVars, lbVars, auxVars>>
    \/ \E p \in Procs : WaitFunc(p) /\ UNCHANGED <<swVars, lbVars, auxVars>>
    \/ \E p \in Procs : wait(p) /\ UNCHANGED <<swVars, lbVars, auxVars>>
    \/ \E p \in Procs : awaitTimer(p) /\ UNCHANGED <<swVars, lbVars, auxVars>>
    \/ \E p \in Procs : awaitCtxDone(p) /\ UNCHANGED <<swVars, lbVars, auxVars>>
    \/ \E p \in Procs : callCb(p) /\ UNCHANGED <<swVars, lbVars, auxVars>>
    \/ cancel /\ UNCHANGED <<swVars, lbVars, auxVars>>
    \/ Tick /\ UNCHANGED <<swVars, lbVars, auxVars>>
SpecLocal == InitLocal /\ [][NextLocal]_vars

InitSeq == SwInit /\ swMax = MaxCapacity /\ swWindow = MaxWindow /\ LbInit /\ LocalInit
           /\ AuxInit
NextSeq ==
    \/ SeqTryTake /\ UNCHANGED <<swVars, lbVars, refSwVars, lbHistVars, adapterVars, ctorVars, lbRefVars, muVars, swTtlVars>>
    \/ SeqSize /\ UNCHANGED <<swVars, lbVars, refSwVars, lbHistVars, adapterVars, ctorVars, lbRefVars, muVars, swTtlVars>>
    \/ SeqTick /\ UNCHANGED <<swVars, lbVars, refSwVars, lbHistVars, adapterVars, ctorVars, lbRefVars, muVars, swTtlVars>>
SpecSeq == InitSeq /\ [][NextSeq]_vars

\* a caller that constructs a local sliding window and then uses it
InitNew == SwInit /\ swMax = MaxCapacity /\ swWindow = MaxWindow /\ LbInit /\ LocalNone
           /\ AuxInit
NextNew ==
    \/ Construct /\ UNCHANGED <<swVars, lbVars, seqVars, refSwVars, lbHistVars, adapterVars, lbRefVars, muVars, swTtlVars>>
    \/ limiter = "sliding" /\ NextSeq
SpecNew == InitNew /\ [][NextNew]_vars

\* goroutines that each make one call on a local limiter holding units0 units
SortedWindows(len, dur) ==
    {w \in SeqsUpTo(1..dur, len) :
        Len(w) = len /\ \A i \in 1..(Len(w) - 1) : w[i] <= w[i + 1]}
InitMutex ==
    /\ SwInit /\ swMax = MaxCapacity /\ swWindow = MaxWindow /\ LbInit
    /\ \E cap \in 1..MaxLocalCapacity :
          \/ /\ limiter = "leaky"
             /\ capacity = cap
             /\ rate = LocalWindow \div cap
             /\ tokens \in 0..cap
             /\ sinceLastFill \in 0..(rate - 1)
             /\ duration = 0
             /\ window = <<>>
             /\ units0 = tokens
          \/ /\ limiter = "sliding"
             /\ capacity = cap
             /\ duration = LocalWindow
             /\ window \in UNION {SortedWindows(len, LocalWindow) : len \in 0..cap}
             /\ rate = 1
             /\ tokens = 0
             /\ sinceLastFill = 0
             /\ units0 = capacity - Len(window)
    /\ admitAges = <<>>
    /\ ctxDone = FALSE
    /\ pc = [p \in Procs |-> "idle"]
    /\ op = [p \in Procs |-> "none"]
    /\ timer = [p \in Procs |-> 0]
    /\ ret = NoRet
    /\ took = [p \in Procs |-> 0]
    /\ cbCalls = [p \in Procs |-> 0]
    /\ takes = 0
    /\ RefInit /\ LbHistIdle /\ AdapterInit /\ CtorInit /\ LbRefInit /\ TtlInit
    /\ mu = {}
    /\ loaded = [p \in Procs |-> Nil]
    /\ pend = [p \in Procs |-> NoPend]
    /\ quiet = TRUE
NextMutex ==
    \/ \E p \in Procs, method \in {"TryTake", "Size", "Wait"} :
          MuCall(p, method) /\ UNCHANGED <<swVars, lbVars, seqVars, refSwVars, lbHistVars, adapterVars, ctorVars, lbRefVars, swTtlVars>>
    \/ \E p \in Procs : MuLock(p) /\ UNCHANGED <<swVars, lbVars, seqVars, refSwVars, lbHistVars, adapterVars, ctorVars, lbRefVars, swTtlVars>>
    \/ \E p \in Procs : MuFill(p) /\ UNCHANGED <<swVars, lbVars, seqVars, refSwVars, lbHistVars, adapterVars, ctorVars, lbRefVars, swTtlVars>>
    \/ \E p \in Procs : MuTest(p) /\ UNCHANGED <<swVars, lbVars, seqVars, refSwVars, lbHistVars, adapterVars, ctorVars, lbRefVars, swTtlVars>>
    \/ \E p \in Procs : MuStore(p) /\ UNCHANGED <<swVars, lbVars, seqVars, refSwVars, lbHistVars, adapterVars, ctorVars, lbRefVars, swTtlVars>>
    \/ \E p \in Procs : MuUnlock(p) /\ UNCHANGED <<swVars, lbVars, seqVars, refSwVars, lbHistVars, adapterVars, ctorVars, lbRefVars, swTtlVars>>
    \/ \E p \in Procs : MuAwaitTimer(p) /\ UNCHANGED <<swVars, lbVars, seqVars, refSwVars, lbHistVars, adapterVars, ctorVars, lbRefVars, swTtlVars>>
    \/ \E p \in Procs : MuAwaitCtxDone(p) /\ UNCHANGED <<swVars, lbVars, seqVars, refSwVars, lbHistVars, adapterVars, ctorVars, lbRefVars, swTtlVars>>
    \/ MuCancel /\ UNCHANGED <<swVars, lbVars, seqVars, refSwVars, lbHistVars, adapterVars, ctorVars, lbRefVars, swTtlVars>>
    \/ MuTick /\ UNCHANGED <<swVars, lbVars, seqVars, refSwVars, lbHistVars, adapterVars, ctorVars, lbRefVars, swTtlVars>>
SpecMutex == InitMutex /\ [][NextMutex]_vars

\* a sliding window of either kind: the redis one on one key, or the local
\* one with its caller
InitSW ==
    \/ SwInit /\ LbInit /\ LocalNone /\ AuxInit
    \/ /\ SwInit /\ swMax = MaxCapacity /\ swWindow = MaxWindow /\ LbInit
       /\ LocalInit /\ limiter = "sliding" /\ AuxInit
NextSW ==
    \/ limiter = "none" /\ NextDSW
    \/ limiter = "sliding" /\ NextSeq
SpecSW == InitSW /\ [][NextSW]_vars

\* Go's timers fire and its runtime schedules every runnable goroutine (weak
\* fairness); a select whose ctx.Done() case is ready again and again takes
\* it eventually, since the choice among ready cases is uniformly random
\* (strong fairness)
FairLocal ==
    /\ SpecLocal
    /\ WF_vars(Tick /\ UNCHANGED <<swVars, lbVars, auxVars>>)
    /\ \A p \in Procs : /\ WF_vars(wait(p) /\ UNCHANGED <<swVars, lbVars, auxVars>>)
                       /\ WF_vars(awaitTimer(p) /\ UNCHANGED <<swVars, lbVars, auxVars>>)
                       /\ WF_vars(callCb(p) /\ UNCHANGED <<swVars, lbVars, auxVars>>)
                       /\ SF_vars(awaitCtxDone(p) /\ UNCHANGED <<swVars, lbVars, auxVars>>)

(***************************************************************************)
(* Claims                                                                  *)
(***************************************************************************)
\* number of admitted Use calls whose timestamp lies in [a, a + swWindow)
AdmittedIn(a) ==
    Cardinality({i \in 1..Len(swAdmitted) : a <= swAdmitted[i] /\ swAdmitted[i] < a + swWindow})

\* C1: redis sliding window, Use calls with non-decreasing timestamps (equal
\* timestamps allowed): every half-open interval of length window holds at
\* most maxCapacity timestamps of calls that returned success.
C1_AtMostMaxCapacityPerWindow ==
    swMonotone => \A a \in 0..MaxNow : AdmittedIn(a) <= swMax

\* C2: redis leaky bucket, takeAmount >= 0 and capacity >= 0, any timestamps:
\* every reply has 0 <= RemainingTokens <= MaximumCapacity of that call, and
\* so has the token value the script stores.
C2_TokensWithinCapacity ==
    (lbCall.op = "Use" /\ lbCall.take >= 0) =>
        /\ 0 <= lbReply.remaining /\ lbReply.remaining <= lbCall.capacity
        /\ lbTokens # Nil => (0 <= lbTokens /\ lbTokens <= lbCall.capacity)

\* a Use drained a bucket that the refill step had brought to its capacity
C2_Witness ==
    /\ lbCall.op = "Use" /\ lbCall.take > 0
    /\ lbCall.refilled = lbCall.capacity
    /\ lbReply.success /\ lbReply.remaining = 0 /\ lbTokens = 0

\* C3: redis leaky bucket Use is all-or-nothing: with T the tokens after the
\* refill step, the call succeeds and stores T - takeAmount exactly when
\* T >= takeAmount, and otherwise fails and stores T; the reply carries the
\* stored value.
C3_AllOrNothing ==
    lbCall.op = "Use" =>
        LET T == lbCall.refilled
            stored == IF T >= lbCall.take THEN T - lbCall.take ELSE T
        IN  /\ lbReply.success <=> (T >= lbCall.take)
            /\ lbReply.remaining = stored
            /\ lbTokens # Nil => lbTokens = stored

\* a Use took exactly the tokens that were there
C3_Witness ==
    /\ lbCall.op = "Use" /\ lbCall.take > 0 /\ lbCall.refilled = lbCall.take
    /\ lbReply.success /\ lbReply.remaining = 0 /\ lbTokens = 0

\* C4: local leaky bucket, context never cancelled, time advancing: every
\* Wait call eventually returns having taken a token.
C4_WaitEventuallyReturns ==
    \A p \in Procs :
        (limiter = "leaky" /\ op[p] = "Wait") ~> (ctxDone \/ (pc[p] = "returned" /\ took[p] = 1))

\* C5: local sliding window: len(window) never exceeds capacity, and at most
\* capacity successful takes have admission times within any duration
\* consecutive clock ticks (a half-open interval of length duration).
C5_AtMostCapacityPerDuration ==
    limiter = "sliding" => (Len(window) <= capacity /\ Len(admitAges) <= capacity)

\* the window is full of live entries and a take has just been refused
C5_Witness ==
    /\ limiter = "sliding" /\ Len(admitAges) = capacity /\ Len(window) = capacity
    /\ ret.kind = "take" /\ ~ret.ok

\* C6: local leaky bucket: 0 <= tokens <= max in every reachable state.
C6_TokensWithinMax ==
    limiter = "leaky" => (0 <= tokens /\ tokens <= capacity)

\* the bucket is empty and a take has just been refused
C6_Witness ==
    /\ limiter = "leaky" /\ tokens = 0
    /\ ret.kind = "take" /\ ~ret.ok

\* C7: redis sliding window, fixed maxCapacity >= 0: every reply has
\* 0 <= RemainingCapacity <= maxCapacity and the sorted set never holds more
\* than maxCapacity members.
C7_RemainingCapacityBounds ==
    /\ swReply.op # "none" => (0 <= swReply.remaining /\ swReply.remaining <= swMax)
    /\ Cardinality(zset) <= swMax

\* the set is full and a Use has just been rejected
C7_Witness ==
    /\ swMax > 0 /\ Cardinality(zset) = swMax
    /\ swReply.op = "Use" /\ ~swReply.success /\ swReply.remaining = 0

\* C8: local limiters: after the context is cancelled, no callback of WaitFunc
\* is invoked.
C8_NoCallbackAfterCancel ==
    [][\A p \in Procs : cbCalls'[p] # cbCalls[p] => ~ctxDone]_vars

\* C9: local limiters: a Wait / WaitFunc invocation takes at most one token;
\* an invocation aborted by cancellation has taken none: each of its failed
\* attempts left the token count as it was and added no window entry, and
\* the aborting step leaves tokens and window alone; cb runs at most once,
\* and only after the invocation's TryTakeWithDuration returned true.
C9_WaitTakesAtMostOne ==
    [][\A p \in Procs :
          /\ took'[p] <= 1
          /\ pc'[p] = "aborted" => took'[p] = 0
          /\ (pc[p] = "try" /\ pc'[p] = "sleep") =>
                (tokens' = tokens /\ Len(window') <= Len(window) /\ took'[p] = took[p])
          /\ (pc[p] = "sleep" /\ pc'[p] = "aborted") => UNCHANGED <<tokens, window>>
          /\ cbCalls'[p] <= 1
          /\ cbCalls'[p] = 1 => (op'[p] = "WaitFunc" /\ took'[p] = 1)
          /\ pc'[p] = "returned" => took'[p] = 1]_vars

\* one WaitFunc has run its callback and another wait was aborted
C9_Witness ==
    \E p, q \in Procs : cbCalls[p] = 1 /\ pc[q] = "aborted"

\* C10: local limiters: once the context is cancelled, every Wait call and
\* every WaitFunc goroutine terminates.
C10_CancelledWaitTerminates ==
    \A p \in Procs :
        (ctxDone /\ op[p] # "none") ~> (pc[p] \in {"returned", "aborted"})

\* a wait was suspended on its timer at cancellation and has been aborted
C10_Witness ==
    \E p \in Procs : ctxDone /\ pc[p] = "aborted" /\ took[p] = 0

\* C11: local sliding window, context never cancelled, time advancing: every
\* one of the concurrent Wait calls eventually returns having added its entry
\* to the window.
C11_SlidingWaitEventuallyReturns ==
    \A p \in Procs :
        (limiter = "sliding" /\ op[p] = "Wait")
            ~> (ctxDone \/ (pc[p] = "returned" /\ took[p] = 1))

\* one Wait has returned with its entry in a full window while another Wait
\* is still suspended on its timer
C11_Witness ==
    \E p, q \in Procs :
        /\ limiter = "sliding" /\ ~ctxDone
        /\ op[p] = "Wait" /\ pc[p] = "returned" /\ took[p] = 1
        /\ op[q] = "Wait" /\ pc[q] = "sleep" /\ timer[q] > 0
        /\ Len(window) = capacity

\* C12: local leaky bucket: Size calls made at any instants between two
\* TryTake calls never change the result of the later TryTake: it succeeds
\* in the run exactly when it succeeds in the same run without the Size
\* calls.
C12_SizeIsPure ==
    (limiter = "leaky" /\ ret.kind = "take" /\ refRet.kind = "take") => ret.ok = refRet.ok

\* C13: local leaky bucket: after TryTakeWithDuration returned (false, d) at
\* time t, and while no token has been taken since, a TryTake at any time
\* >= t + d succeeds, whatever refused TryTake calls and Size calls were
\* made in between.
C13_LeakyPromiseKept ==
    (limiter = "leaky" /\ promise = 0) =>
        \A e1, e2 \in SeqSkew : LbTryTakeWithDuration(e1, e2).ok

\* time left until the earliest of the entries of w that have not expired
EarliestExpiry(w) ==
    LET live == {w[i] : i \in {j \in 1..Len(w) : w[j] > 0}}
    IN  CHOOSE x \in live : \A y \in live : x <= y

\* C14: local sliding window: a TryTakeWithDuration that returns (false, d)
\* at time t returns d = (expiry of the earliest entry in the window) - t,
\* and while no take has succeeded since, a TryTake at any time >= t + d
\* succeeds, whatever refused TryTake calls and Size calls were made in
\* between.
C14_SlidingPromiseKept ==
    limiter = "sliding" =>
        /\ \A e1 \in 0..MaxSkew :
              LET r == SwTryTakeWithDuration(e1)
              IN  ~r.ok => r.d = EarliestExpiry(window) - e1
        /\ promise = 0 => \A e1 \in 0..MaxSkew : SwTryTakeWithDuration(e1).ok

\* a take was refused with d > 0 while the window held two entries of
\* different expiry, and the time t + d has come with the entries still stored
C14_Witness ==
    /\ limiter = "sliding" /\ promise = 0
    /\ ret.kind = "take" /\ ~ret.ok /\ ret.d > 0
    /\ Len(window) = 2 /\ window[1] = 0 /\ window[2] > 0

\* C15 as stated: local limiters: the last TryTakeWithDuration returned a
\* duration of exactly 0 if it returned true and a strictly positive
\* duration if it returned false.
C15_DurationSign ==
    ret.kind = "take" => /\ ret.ok => ret.d = 0
                         /\ ~ret.ok => ret.d > 0

\* C15, amended: local limiters: TryTakeWithDuration returns a duration of
\* exactly 0 whenever it returns true; whenever it returns false the duration
\* is strictly positive exactly if the clock, between the call's clock
\* readings, advances by less than the time that was left (rate for the
\* leaky bucket, the time to the expiry of window[0] for the sliding window),
\* so it is strictly positive when the readings coincide and zero or negative
\* otherwise; the sliding window reads window[0] only on a window that is
\* not empty.
C15_DurationOnRefusal ==
    /\ \A e1, e2 \in 0..MaxSkew :
          LET r == TryTakeWithDuration(e1, e2)
          IN  /\ r.ok => r.d = 0
              /\ ~r.ok => (r.d > 0 <=> IF limiter = "leaky"
                                       THEN e2 < rate
                                       ELSE e1 < EarliestExpiry(window))
              /\ (~r.ok /\ e1 = 0 /\ e2 = 0) => r.d > 0
    /\ (limiter = "sliding" /\ Len(clean(window)) >= capacity) => clean(window) # <<>>

\* a take on a full sliding window was refused with a strictly positive
\* duration, the time left of window[0]
C15_Witness ==
    /\ limiter = "sliding" /\ Len(window) = capacity
    /\ ret.kind = "take" /\ ~ret.ok /\ ret.d > 0 /\ ret.d = window[1]

\* the entries of w that have not expired
LiveEntries(w) == SelectSeq(w, LAMBDA x : x > 0)

\* the least element of a non-empty set of numbers
SetMin(S) == CHOOSE x \in S : \A y \in S : x <= y

\* C16: sliding window, local and redis: while the live count equals the
\* capacity, every Use / TryTake made strictly before the earliest live
\* entry's expiry is rejected and leaves the stored entries as they are, and
\* a Use / TryTake made at or after that expiry is admitted.
C16_FullWindowRejectsUntilExpiry ==
    /\ limiter = "sliding" =>
          \A e1 \in 0..MaxSkew :
              LET r == SwTryTakeWithDuration(e1)
              IN  /\ Len(admitAges) = capacity =>
                        (~r.ok /\ r.window = SeqMap(LiveEntries(window), e1))
                  /\ Len(admitAges) < capacity => r.ok
    /\ (limiter = "none" /\ swMax > 0 /\ Cardinality(zset) = swMax) =>
          \A now \in 0..MaxNow :
              LET out == UseScript(zset, now, now + swWindow, swMax)
              IN  /\ now < SetMin(zset) => (out.success = 0 /\ out.set = zset)
                  /\ now >= SetMin(zset) => (out.success = 1 /\ out.added)

\* a redis sliding window of capacity 1 was full and admitted a second Use
\* made exactly at the expiry of the first admission
C16_Witness ==
    /\ limiter = "none" /\ swMax = 1 /\ swMonotone
    /\ Len(swAdmitted) = 2 /\ swAdmitted[2] = swAdmitted[1] + swWindow
    /\ swReply.op = "Use" /\ swReply.success /\ swReply.now = swAdmitted[2]
    /\ zset = {swAdmitted[2] + swWindow}

\* the entries of the sequence s are pairwise distinct
DistinctSeq(s) == \A i, j \in 1..Len(s) : i # j => s[i] # s[j]

\* number of admitted Use calls whose entry is live at the time now
LiveAdmitted(now) ==
    Cardinality({i \in 1..Len(swAdmitted) :
                    swAdmitted[i] <= now /\ now < swAdmitted[i] + swWindow})

\* C17: sliding window, local and redis, admissions at pairwise distinct
\* times, timestamps read from the one clock: an entry admitted at t is
\* counted by every Use / Inspect / Size / TryTake evaluated at now < t + w
\* and by none evaluated at now >= t + w; eviction removes exactly the
\* entries whose expiry is <= now.
C17_EvictionIsExact ==
    /\ limiter = "sliding" =>
          /\ clean(window) = LiveEntries(window)
          /\ LiveEntries(window) = [i \in 1..Len(admitAges) |-> duration - admitAges[i]]
          /\ SwSize.size = Len(admitAges)
    /\ (limiter = "none" /\ swAgree /\ DistinctSeq(swAdmitted)) =>
          /\ {m \in zset : m > swClock} =
                 {swAdmitted[i] + swWindow :
                     i \in {j \in 1..Len(swAdmitted) : swAdmitted[j] + swWindow > swClock}}
          /\ InspectScript(zset, swClock).tokens = LiveAdmitted(swClock)
          /\ swReply.op # "none" => swMax - swReply.remaining = LiveAdmitted(swReply.now)

\* an Inspect made exactly at the expiry of the first of two admissions
\* counted the second one only
C17_Witness ==
    /\ limiter = "none" /\ swAgree /\ Len(swAdmitted) = 2
    /\ swAdmitted[1] < swAdmitted[2]
    /\ swReply.op = "Inspect" /\ swReply.now = swAdmitted[1] + swWindow
    /\ swMax - swReply.remaining = 1
    /\ zset = {swAdmitted[2] + swWindow}

\* C18: redis sliding window: an Inspect issued with the same timestamp
\* right after a Use on the same key reports the RemainingCapacity the Use
\* reported, the count the Use returns is the number of members stored
\* after it, and Inspect adds no member.
C18_InspectAgreesWithUse ==
    \A now \in 0..MaxNow :
        LET u == UseScript(zset, now, now + swWindow, swMax)
            i == InspectScript(u.set, now)
        IN  /\ RemainingCapacity(swMax, i.tokens) = RemainingCapacity(swMax, u.tokens)
            /\ u.tokens = Cardinality(u.set)
            /\ i.set \subseteq u.set

\* C19: redis sliding window, calls with non-decreasing timestamps: Inspect
\* calls put between the Use calls change neither the success flag nor the
\* RemainingCapacity of any later Use: the last Use replied as it did in the
\* same run without the Inspect calls, and so will the next Use, whatever
\* its timestamp.
C19_InspectChangesNoUse ==
    swMonotone =>
        /\ swReply.op = "Use" =>
              /\ swReply.success = refSwReply.success
              /\ swReply.remaining = refSwReply.remaining
        /\ \A now \in swLastNow..MaxNow :
              LET out == UseScript(zset, now, now + swWindow, swMax)
                  ref == UseScript(refZset, now, now + swWindow, swMax)
              IN  out.success = ref.success /\ out.tokens = ref.tokens

\* an Inspect has evicted a member that the run without Inspect calls still
\* stores, and Use calls were admitted before it
C19_Witness ==
    /\ swMonotone /\ swReply.op = "Inspect" /\ Len(swAdmitted) >= 2
    /\ zset # refZset /\ zset # {}

\* C20: redis leaky bucket: a Use whose takeAmount is greater than the
\* MaximumCapacity of the call never succeeds, in any stored state and at
\* any timestamp: the tokens the take step sees are at most the capacity,
\* the reply is a failure and nothing is taken.
C20_TakeAboveCapacityFails ==
    (lbCall.op = "Use" /\ lbCall.take > lbCall.capacity) =>
        /\ lbCall.refilled <= lbCall.capacity
        /\ ~lbReply.success
        /\ lbReply.remaining = lbCall.refilled

\* a bucket holding as many tokens as the capacity of the call was asked
\* for one token more and refused, and kept its tokens
C20_Witness ==
    /\ lbCall.op = "Use" /\ lbCall.capacity > 0 /\ lbCall.take = lbCall.capacity + 1
    /\ lbCall.refilled = lbCall.capacity
    /\ ~lbReply.success /\ lbTokens = lbCall.capacity

\* C21: redis leaky bucket, fixed options: k Use(takeAmount = 1) calls in a
\* row with one timestamp now, the first of which found the keys absent
\* (never written, or expired), k <= capacity: the k-th succeeds, reports
\* RemainingTokens = capacity - k and ResetAt = now + min(windowSeconds,
\* ceil(k / rate)) with rate = capacity / windowSeconds.
C21_FreshKeyBurst ==
    (lbRun >= 1 /\ lbRun <= lbCap) =>
        /\ lbReply.success
        /\ lbReply.remaining = lbCap - lbRun
        /\ lbReply.resetAt = lbCall.now + Min(lbWin, CeilDiv(lbRun * lbWin, lbCap))

C25_FreshLimiterTakesCapacity ==
    (pristine /\ tries <= capacity + 1) =>
        /\ succ = Min(tries, capacity)
        /\ ret.kind = "take" => (ret.ok <=> tries <= capacity)
        /\ ret.kind = "size" =>
              ret.size = (IF limiter = "leaky" THEN capacity - succ ELSE succ)

\* a fresh limiter of capacity 2 or more has been emptied and has refused
\* the next take
C25_Witness ==
    /\ pristine /\ capacity >= 2 /\ tries = capacity + 1 /\ succ = capacity
    /\ ret.kind = "take" /\ ~ret.ok

\* the reply has the shape the method's script returns
WellFormed(method, val) ==
    IF method = "SlidingWindowImpl.Inspect" THEN val.kind = "int64"
    ELSE /\ val.kind = "list"
         /\ Len(val.items) = (IF method = "LeakyBucketImpl.Use" THEN 3 ELSE 2)
         /\ \A i \in 1..Len(val.items) : val.items[i].kind = "int64"

\* C26: redis limiters: when the adapter's Eval returns an error, Use (leaky
\* bucket and sliding window) and Inspect return a nil response and an error
\* that wraps the adapter's error, and Eval has been invoked exactly once,
\* whatever a second invocation would have returned.
C26_AdapterErrorIsReturned ==
    (adCall.method # "none" /\ adCall.evals[1].err # "none") =>
        /\ adResult.resp = NoResponse
        /\ adResult.err = AdapterError(adCall.evals[1].err)
        /\ adResult.evals = 1

\* the leaky bucket's Use returned the adapter's error although the adapter
\* returned a well-formed reply next to it and would have done so again
C26_Witness ==
    /\ adCall.method = "LeakyBucketImpl.Use"
    /\ adCall.evals[1].err = "refused"
    /\ WellFormed(adCall.method, adCall.evals[1].value)
    /\ adCall.evals[2].err = "none" /\ adCall.evals[2].value.kind = "list"
    /\ Len(adCall.evals[2].value.items) = 3
    /\ adResult.err.kind = "adapter"

\* C27: redis limiters: a reply of the store that is not a list, or a list of
\* the wrong length (3 for the leaky bucket's Use, 2 for the sliding
\* window's), or that holds an element that is not an int64, or for Inspect
\* is not a single int64, yields a nil response and a parse error.
C27_MalformedReplyIsAnError ==
    (/\ adCall.method # "none"
     /\ adCall.evals[1].err = "none"
     /\ ~WellFormed(adCall.method, adCall.evals[1].value)) =>
        /\ adResult.resp = NoResponse
        /\ adResult.err = ParseError

\* the leaky bucket's Use refused a list of four int64s that starts like a
\* successful reply
C27_Witness ==
    /\ adCall.method = "LeakyBucketImpl.Use"
    /\ adCall.evals[1].err = "none"
    /\ adCall.evals[1].value.kind = "list"
    /\ Len(adCall.evals[1].value.items) = 4
    /\ \A i \in 1..4 : adCall.evals[1].value.items[i] = [kind |-> "int64", v |-> 1]
    /\ adResult.err = ParseError

\* C28: NewSlidingWindow(capacity, duration) returns (nil, ErrCapacity) when
\* capacity <= 0, whatever the duration; (nil, ErrDuration) when capacity > 0
\* and duration <= 0; and otherwise no error and a limiter with that
\* capacity and duration whose window is empty until the first take.
C28_NewSlidingWindowValidates ==
    newErr # "none" =>
        /\ newArgs.capacity <= 0 => (newErr = "ErrCapacity" /\ limiter = "none")
        /\ (newArgs.capacity > 0 /\ newArgs.duration <= 0) =>
              (newErr = "ErrDuration" /\ limiter = "none")
        /\ (newArgs.capacity > 0 /\ newArgs.duration > 0) =>
              /\ newErr = "nil" /\ limiter = "sliding"
              /\ capacity = newArgs.capacity /\ duration = newArgs.duration
              /\ tries = 0 => window = <<>>

\* a call with both arguments invalid was refused for its capacity
C28_Witness ==
    /\ newArgs.capacity <= 0 /\ newArgs.duration <= 0
    /\ newErr = "ErrCapacity" /\ limiter = "none"

\* C29: redis leaky bucket, fixed options, no negative takeAmount, calls in
\* the order of their timestamps: among calls in a row that carry one
\* timestamp, the takeAmounts of the successful ones add up to at most the
\* capacity.
C29_BurstWithinCapacity ==
    (lbOrdered /\ lbNoNeg) => lbBurst <= lbCap

\* C30: redis leaky bucket, fixed options, no negative takeAmount, calls in
\* the order of their timestamps: once a Use has returned ResetAt = R and
\* only calls with takeAmount 0 follow, each of them with a timestamp >= R
\* reports RemainingTokens = capacity.
C30_FullAtResetAt ==
    (lbOrdered /\ lbNoNeg /\ lbLate) => lbReply.remaining = lbCap


\* C31: redis leaky bucket, keys present after a Use with a capacity c >= 1
\* that left at most c tokens: a next Use with the same window, a capacity
\* above c and a timestamp now at or after the stored last_fill credits at
\* most floor((now - last_fill) * c / windowSeconds) tokens, and no token
\* when now = last_fill.
C31_NoRetroactiveCredit ==
    (/\ lbCall.op = "Use" /\ lbTokens # Nil /\ lbLastFill # Nil
     /\ lbCall.capacity >= 1 /\ lbTokens <= lbCall.capacity) =>
        \A cap \in (lbCall.capacity + 1)..(MaxCapacity + 1), now \in lbLastFill..MaxSeconds :
            LET filled == Refill(lbTokens, lbLastFill, cap, lbCall.windowSeconds, now)
            IN  /\ filled.tokens - lbTokens
                     <= TokensToFill(now, lbLastFill, lbCall.capacity, lbCall.windowSeconds)
                /\ now = lbLastFill => filled.tokens <= lbTokens


\* C32: redis leaky bucket, any takeAmount (zero and negative included): the
\* RemainingTokens a Use returns and the token count it stores are at most
\* the MaximumCapacity of that call.
C32_NeverAboveCapacity ==
    lbCall.op = "Use" =>
        /\ lbReply.remaining <= lbCall.capacity
        /\ lbTokens # Nil => lbTokens <= lbCall.capacity


\* C33: redis leaky bucket, fixed options, takeAmount >= 0, non-decreasing
\* timestamps that are the store's own time: every Use returns the same
\* success flag and RemainingTokens in the store that expires both keys
\* windowSeconds after the last write as in a store that never expires them.
C33_ExpiryIsTransparent ==
    (lbCall.op = "Use" /\ lbOrdered /\ lbNoNeg /\ lbAgree) =>
        /\ lbReply.success = lbRefReply.success
        /\ lbReply.remaining = lbRefReply.remaining


\* the steps between r.m.Lock() and the deferred r.m.Unlock()
Locked == {"fill", "test", "store", "unlock"}

\* C34: local limiters: a goroutine suspended in awaitNextToken (on its timer
\* or on ctx.Done()) does not hold r.m; r.m is held exactly by the goroutines
\* inside TryTakeWithDuration or Size, and by at most one at a time; a
\* goroutine waiting in r.m.Lock() waits for one that is running inside such
\* a call, never for a suspended one, so some goroutine can always step.
C34_NoLockHeldWhileSuspended ==
    /\ \A p \in Procs : pc[p] = "sleep" => p \notin mu
    /\ \A p \in Procs : p \in mu <=> pc[p] \in Locked
    /\ Cardinality(mu) <= 1
    /\ \A p \in Procs : pc[p] = "lock" => (mu = {} \/ \E h \in mu : pc[h] \in Locked)

\* a goroutine is suspended on its timer while another one holds the mutex
\* inside its own call
C34_Witness ==
    \E p, h \in Procs :
        /\ p # h /\ pc[p] = "sleep" /\ timer[p] > 0
        /\ h \in mu /\ pc[h] = "store"

\* C35: local limiters: when K TryTake calls run concurrently (any
\* interleaving of their steps, Size calls among them) on an instance with n
\* units available and no tick of the clock passes, then once all have
\* returned exactly min(K, n) of them returned true, and the instance holds
\* n - min(K, n) units.
C35_ConcurrentTakesAreExact ==
    (/\ quiet
     /\ \A p \in Procs : pc[p] \in {"idle", "returned"} /\ op[p] \in {"none", "TryTake", "Size"}) =>
        LET K == Cardinality({p \in Procs : op[p] = "TryTake"})
            T == Cardinality({p \in Procs : op[p] = "TryTake" /\ pend[p].ok})
        IN  /\ T = Min(K, units0)
            /\ limiter = "leaky" => tokens = units0 - T
            /\ limiter = "sliding" => Len(window) = capacity - units0 + T

\* every goroutine called TryTake at once and there was one unit less than
\* goroutines: all returned, one of them with false
C35_Witness ==
    /\ quiet /\ units0 = NumProcs - 1
    /\ \A p \in Procs : pc[p] = "returned" /\ op[p] = "TryTake"
    /\ \E p \in Procs : ~pend[p].ok
    /\ \E p \in Procs : pend[p].ok


\* C36: redis leaky bucket, both keys present: whatever options and timestamp
\* the next Use carries, the lastFilled it stores and returns is not below
\* the stored one; if its timestamp is not later than the stored lastFilled
\* it credits no token and leaves lastFilled as it is.
C36_LastFillNeverDecreases ==
    (lbTokens # Nil /\ lbLastFill # Nil) =>
        \A cap \in 0..MaxCapacity, windowSeconds \in 1..MaxWindowSeconds, now \in 0..MaxSeconds :
            LET filled == Refill(lbTokens, lbLastFill, cap, windowSeconds, now)
            IN  /\ filled.lastFilled >= lbLastFill
                /\ now <= lbLastFill =>
                      /\ filled.tokens = Min(lbTokens, cap)
                      /\ filled.lastFilled = lbLastFill

\* a Use with a timestamp before the stored lastFilled found the bucket
\* short of its capacity and left lastFilled alone
C36_Witness ==
    /\ lbCall.op = "Use" /\ lbLastFill # Nil
    /\ lbCall.now < lbLastFill
    /\ lbCall.refilled < lbCall.capacity


\* C37: redis sliding window, one window per key, every call carrying the
\* store's own time: each member the key's TTL removes has an expiry
\* timestamp that has passed (a script run at that time would evict it), and
\* the live members are the same as in a store that never expires the key.
C37_TtlRemovesOnlyExpired ==
    swAgree =>
        /\ \A m \in ttlRemoved : m <= swClock
        /\ ZRemRangeByScore(zset, swClock) = ZRemRangeByScore(swNoTtl, swClock)

\* the key's TTL has just removed a member, after a successful Use
C37_Witness ==
    /\ swAgree /\ ttlRemoved # {} /\ zset = {}
    /\ Len(swAdmitted) > 0


\* the entries of w are in the order of their expiry
Ordered(w) == \A i \in 1..(Len(w) - 1) : w[i] <= w[i + 1]

\* C38: local sliding window: in every reachable state the window is ordered
\* by non-decreasing expiry, and what clean() leaves of it at that moment
\* holds only entries that expire strictly after now: no expired entry stays
\* behind a live one.
C38_WindowOrdered ==
    limiter = "sliding" =>
        /\ Ordered(window)
        /\ \A i \in 1..Len(clean(window)) : clean(window)[i] > 0

\* a full window of two live entries with different expiries, after clean
\* has evicted an entry
C38_Witness ==
    /\ limiter = "sliding" /\ ~pristine
    /\ Len(window) = 2 /\ capacity = 2
    /\ 0 < window[1] /\ window[1] < window[2]

====
